---- MODULE Spec2Model ----
(***************************************************************************)
(* LinChat: the message reconstruction core.                               *)
(*                                                                         *)
(*   PartsBuilder / TimingTracker   (composables/partsBuilder)             *)
(*   handleIncomingMessage, executeToolCallsLocally (composables/message)  *)
(*   useMessagesManager.sendMessage (composables/messagesManager)          *)
(*                                                                         *)
(* A JavaScript string is a sequence of tokens; the tokens are single      *)
(* characters (" " is the white space character) and the word "None",      *)
(* which the code compares whole fragments against.  null is Null, a       *)
(* property that was never assigned is Undefined.                          *)
(***************************************************************************)
EXTENDS Integers, Sequences, FiniteSets, TLC

Null == "null"
Undefined == "undefined"

(***************************************************************************)
(* Bounds of the model.                                                    *)
(***************************************************************************)
\* operations applied to one PartsBuilder in SpecBuilder
MaxOps == 3
\* fragments appended in SpecReasoning
MaxFrags == 4
\* tool_call deltas applied in SpecDelta
MaxDeltas == 3

(***************************************************************************)
(* Strings.                                                                *)
(***************************************************************************)
Min(S) == CHOOSE x \in S : \A y \in S : x <= y

RECURSIVE trimStart(_)
trimStart(s) == IF s # <<>> /\ Head(s) = " " THEN trimStart(Tail(s)) ELSE s

RECURSIVE trimEnd(_)
trimEnd(s) ==
  IF s # <<>> /\ s[Len(s)] = " " THEN trimEnd(SubSeq(s, 1, Len(s) - 1)) ELSE s

\* String.prototype.trim
trim(s) == trimEnd(trimStart(s))

IsPrefix(s, t) == Len(s) <= Len(t) /\ SubSeq(t, 1, Len(s)) = s

IsSuffix(s, t) == Len(s) <= Len(t) /\ SubSeq(t, Len(t) - Len(s) + 1, Len(t)) = s

(***************************************************************************)
(* PartsBuilder.  A part is {type, content | toolType, tools | images};    *)
(* the fields a part type does not have are kept at their empty value.     *)
(***************************************************************************)
newPart(type, toolType) ==
  [type |-> type, content |-> <<>>, toolType |-> toolType,
   tools |-> <<>>, images |-> <<>>]

\* the part getOrCreatePart returns is always the last one of the result
getOrCreatePart_NoReuse(ps, type, toolType) ==
  Append(ps, newPart(type, IF type = "tool_group" THEN toolType ELSE Null))

getOrCreatePart(ps, type, toolType) ==
  IF type = "tool_group"
  THEN IF ps # <<>> /\ ps[Len(ps)].type = "tool_group"
          /\ ps[Len(ps)].toolType = toolType
       THEN ps
       ELSE Append(ps, newPart("tool_group", toolType))
  ELSE IF ps # <<>> /\ ps[Len(ps)].type = type
       THEN ps
       ELSE Append(ps, newPart(type, Null))

appendContent_NoGuard(ps, text) ==
  LET q == getOrCreatePart(ps, "content", Null)
  IN  [q EXCEPT ![Len(q)].content = @ \o text]

appendContent(ps, text) ==
  IF text = <<>>
  THEN ps
  ELSE LET q == getOrCreatePart(ps, "content", Null)
       IN  [q EXCEPT ![Len(q)].content = @ \o text]

appendReasoning_NoReplace(ps, text) ==
  IF text = <<>> \/ trim(text) = <<"None">>
  THEN ps
  ELSE LET q == getOrCreatePart(ps, "reasoning", Null)
       IN  [q EXCEPT ![Len(q)].content = @ \o text]

appendReasoning(ps, text) ==
  IF text = <<>> \/ trim(text) = <<"None">>
  THEN ps
  ELSE LET q == getOrCreatePart(ps, "reasoning", Null)
           n == Len(q)
       IN  IF trim(q[n].content) = <<>> /\ trim(text) # <<>>
           THEN [q EXCEPT ![n].content = text]
           ELSE [q EXCEPT ![n].content = @ \o text]

addImage(ps, url, revisedPrompt) ==
  IF url = Null
  THEN ps
  ELSE LET q == getOrCreatePart(ps, "image", Null)
       IN  [q EXCEPT ![Len(q)].images =
              Append(@, [url |-> url, revised_prompt |-> revisedPrompt])]

\* image.image_url?.url || image.url
processImage(ps, image) ==
  LET url == IF image.image_url # Null THEN image.image_url ELSE image.url
  IN  IF url # Null THEN addImage(ps, url, image.revised_prompt) ELSE ps

\* a tool_call delta: absent id and type are Null, absent function.name and
\* function.arguments are the empty string (the code tests them for truth)
mergeTool_ReplaceArgs(t, toolData) ==
  [t EXCEPT
     !.function.name = IF toolData.function.name # <<>>
                       THEN toolData.function.name ELSE @,
     !.function.arguments = IF toolData.function.arguments # <<>>
                            THEN toolData.function.arguments ELSE @,
     !.id = IF toolData.id # Null THEN toolData.id ELSE @,
     !.type = IF toolData.type # Null THEN toolData.type ELSE @]

mergeTool(t, toolData) ==
  [t EXCEPT
     !.function.name = IF toolData.function.name # <<>>
                       THEN toolData.function.name ELSE @,
     !.function.arguments = @ \o toolData.function.arguments,
     !.id = IF toolData.id # Null THEN toolData.id ELSE @,
     !.type = IF toolData.type # Null THEN toolData.type ELSE @]

newTool(toolData) ==
  [index |-> toolData.index,
   id |-> toolData.id,
   type |-> IF toolData.type # Null THEN toolData.type ELSE "function",
   function |-> [name |-> toolData.function.name,
                 arguments |-> toolData.function.arguments],
   result |-> Undefined]

addOrUpdateTool(ps, toolType, toolData) ==
  LET q == getOrCreatePart(ps, "tool_group", toolType)
      n == Len(q)
      found == {i \in 1..Len(q[n].tools) : q[n].tools[i].index = toolData.index}
  IN  IF found # {}
      THEN [q EXCEPT ![n].tools[Min(found)] = mergeTool(@, toolData)]
      ELSE [q EXCEPT ![n].tools = Append(@, newTool(toolData))]

\* the parts that hold a tool with this id, and the tools of a part that have it
partsWithTool(ps, toolId) ==
  {p \in 1..Len(ps) : ps[p].type = "tool_group"
                      /\ \E i \in 1..Len(ps[p].tools) : ps[p].tools[i].id = toolId}

toolsWithId(part, toolId) ==
  {i \in 1..Len(part.tools) : part.tools[i].id = toolId}

setToolResult_LastPartOnly(ps, toolId, result) ==
  IF ps # <<>> /\ Len(ps) \in partsWithTool(ps, toolId)
  THEN [ps EXCEPT ![Len(ps)].tools[Min(toolsWithId(ps[Len(ps)], toolId))].result
                     = result]
  ELSE ps

setToolResult(ps, toolId, result) ==
  IF partsWithTool(ps, toolId) = {}
  THEN ps
  ELSE LET p == Min(partsWithTool(ps, toolId))
       IN  [ps EXCEPT ![p].tools[Min(toolsWithId(ps[p], toolId))].result = result]

\* the value setToolResult returns
setToolResultFound(ps, toolId) == partsWithTool(ps, toolId) # {}

RECURSIVE getAllTools(_)
getAllTools(ps) ==
  IF ps = <<>> THEN <<>>
  ELSE (IF Head(ps).type = "tool_group" THEN Head(ps).tools ELSE <<>>)
       \o getAllTools(Tail(ps))

hasParts(ps) == Len(ps) > 0

hasContentPart(ps) == \E p \in 1..Len(ps) : ps[p].type = "content"

hasImagePart(ps) == \E p \in 1..Len(ps) : ps[p].type = "image"

ensureContentPartFirst(ps, content) ==
  IF hasImagePart(ps) /\ ~hasContentPart(ps) /\ content # <<>>
  THEN <<[newPart("content", Null) EXCEPT !.content = content]>> \o ps
  ELSE ps

toArray(ps) == ps

\* the copy holds the parts' texts, tool lists and image lists of this moment
toReactiveArray(ps) == ps

(***************************************************************************)
(* State.                                                                  *)
(*   parts  PartsBuilder.parts of the builder in use                       *)
(*   nOps   operations applied to it so far                                *)
(*   last   the last operation applied: its name, arguments and result     *)
(*   frags  the text fragments passed to the builder so far, in order      *)
(*   seen   what the tool_call deltas applied so far carried               *)
(***************************************************************************)
VARIABLES parts, nOps, last, frags, seen

bvars == <<parts, nOps, last, frags, seen>>

(***************************************************************************)
(* State of one messages manager and of the turn it runs.                  *)
(*   config        what the turn reads from the settings, the model list   *)
(*                 and the tool registry                                   *)
(*   messages      messages.value                                          *)
(*   assistantMsg  the object createAssistantMessage returned to           *)
(*                 sendMessage (the list holds copies of it)               *)
(*   isLoading, isIncognito, aborted (controller.signal.aborted)           *)
(*   firstTokenReceived  TimingTracker.firstTokenReceived                  *)
(*   now           the clock new Date() reads                              *)
(*   sm            where sendMessage stands                                *)
(*   gen           the locals of the handleIncomingMessage generator       *)
(*   hist          what happened so far in the turn                        *)
(***************************************************************************)
VARIABLES config, messages, assistantMsg, isLoading, isIncognito, aborted,
          firstTokenReceived, now, sm, gen, hist

tvars == <<config, messages, assistantMsg, isLoading, isIncognito, aborted,
           firstTokenReceived, now, sm, gen, hist>>

(***************************************************************************)
(* State of the reader of one response body (the read loop of              *)
(* handleIncomingMessage taken alone).                                     *)
(*   bytes    the body of the response, "\n" ending each line              *)
(*   delivered  how many of them reader.read() has handed over             *)
(*   emitted  the chunks yielded so far                                    *)
(***************************************************************************)
VARIABLES bytes, delivered, emitted

rvars == <<bytes, delivered, emitted>>

(***************************************************************************)
(* State of the two helpers of handleIncomingMessage taken alone.          *)
(*   exec       the locals of one call of executeToolCallsLocally          *)
(*   formatted  the message formatMessageForAPI was given and the API      *)
(*              message it returned                                        *)
(***************************************************************************)
VARIABLES exec, formatted

(***************************************************************************)
(* State of the other pieces taken alone.                                  *)
(*   snapshot  the array a call of toReactiveArray returned                *)
(*   currConvo  currConvo.value of the messages manager                    *)
(*   storage   the conversation records of localforage, by conversation id *)
(*   generated  how many ids generateId and randomUUID have given out      *)
(*   request   the body of the last request handleIncomingMessage built,   *)
(*             with the toolNames and the tool_use it was called with, the *)
(*             number of the abort controller in controller.value and how  *)
(*             many times sendMessage was called                           *)
(*   page      where the browser is, and how far the two mounted hooks of  *)
(*             the conversation page have come                             *)
(***************************************************************************)
VARIABLES snapshot, currConvo, storage, generated, request, page

xvars == <<snapshot, currConvo, storage, generated, request, page>>

(***************************************************************************)
(*   metadata  the list stored under conversations_metadata                *)
(*   jobs      the calls of storeMessages and generateTitleInBackground in *)
(*             flight: where each is and what it has read                  *)
(***************************************************************************)
VARIABLES metadata, jobs

svars == <<metadata, jobs>>

hvars == <<exec, formatted, xvars, svars>>

vars == <<bvars, tvars, rvars, hvars>>

noOp == [op |-> "none", toolId |-> Null, result |-> Null, found |-> FALSE,
         toolType |-> Null, toolData |-> Null, text |-> <<>>]

noneSeen == [indexes |-> {}, toolTypes |-> {}, name |-> <<>>, arguments |-> <<>>]

(***************************************************************************)
(* Messages.  A Date is a reading of the clock; a Date field that is null  *)
(* holds NullTime.  errorDetails is null or the name of the error.         *)
(***************************************************************************)
NullTime == -1

\* the clock stops advancing here
MaxTime == 6

tick(t) == IF t < MaxTime THEN t + 1 ELSE t

CancelMarker == <<"[STREAM CANCELED]">>

ErrorMarker == <<"[ERROR]">>

CriticalErrorMarker == <<"[CRITICAL ERROR]">>

NoModelMarker == <<"Error: No AI model selected.">>

userMessage(content) ==
  [id |-> "u1", role |-> "user", reasoning |-> <<>>, content |-> content,
   tool_calls |-> <<>>, complete |-> TRUE, apiCallTime |-> NullTime,
   firstTokenTime |-> NullTime, completionTime |-> NullTime,
   reasoningStartTime |-> NullTime, reasoningEndTime |-> NullTime,
   reasoningDuration |-> NullTime, error |-> FALSE, errorDetails |-> Null,
   parts |-> <<>>]

createAssistantMessage(t) ==
  [id |-> "a1", role |-> "assistant", reasoning |-> <<>>, content |-> <<>>,
   tool_calls |-> <<>>, complete |-> FALSE, apiCallTime |-> t,
   firstTokenTime |-> NullTime, completionTime |-> NullTime,
   reasoningStartTime |-> NullTime, reasoningEndTime |-> NullTime,
   reasoningDuration |-> NullTime, error |-> FALSE, errorDetails |-> Null,
   parts |-> <<>>]

\* { ...message, ...updates }
spread(message, updates) ==
  [f \in DOMAIN message |->
     IF f \in DOMAIN updates THEN updates[f] ELSE message[f]]

indexesOf(msgs, id) == {i \in 1..Len(msgs) : msgs[i].id = id}

updateAssistantMessage_NotFound(msgs, message, updates) == msgs

updateAssistantMessage(msgs, message, updates) ==
  IF indexesOf(msgs, message.id) # {}
  THEN LET index == Min(indexesOf(msgs, message.id))
       IN  [msgs EXCEPT ![index] = spread(msgs[index], updates)]
  ELSE msgs

\* messages.value.splice(messages.value.length - 1, 1, updatedMsg)
updateMessageReactivity(msgs, msg, ps) ==
  LET updatedMsg == spread(msg, [parts |-> toReactiveArray(ps),
                                 tool_calls |-> getAllTools(ps)])
  IN  IF msgs = <<>>
      THEN <<updatedMsg>>
      ELSE [msgs EXCEPT ![Len(msgs)] = updatedMsg]

(***************************************************************************)
(* TimingTracker, on the message it was constructed with.                  *)
(***************************************************************************)
markFirstToken(msg, received, t) ==
  IF ~received THEN [msg EXCEPT !.firstTokenTime = t] ELSE msg

startReasoning(msg, t) ==
  IF msg.reasoningStartTime = NullTime
  THEN [msg EXCEPT !.reasoningStartTime = t] ELSE msg

endReasoning_Unguarded(msg, t) == [msg EXCEPT !.reasoningEndTime = t]

endReasoning(msg, t) ==
  IF msg.reasoningStartTime # NullTime /\ msg.reasoningEndTime = NullTime
  THEN [msg EXCEPT !.reasoningEndTime = t] ELSE msg

calculateReasoningDuration(msg, t) ==
  IF msg.reasoningStartTime = NullTime
  THEN NullTime
  ELSE (IF msg.reasoningEndTime # NullTime THEN msg.reasoningEndTime ELSE t)
       - msg.reasoningStartTime

(***************************************************************************)
(* The chunks handleIncomingMessage yields.  A null content or reasoning   *)
(* is the empty string (sendMessage tests both for truth); tool_result is  *)
(* absent (<<>>) or one {id, result}.                                      *)
(***************************************************************************)
chunk(content, reasoning, tool_calls) ==
  [content |-> content, reasoning |-> reasoning, tool_calls |-> tool_calls,
   tool_result |-> <<>>, images |-> <<>>, error |-> FALSE,
   errorDetails |-> Null]

toolResultChunk(id, result) ==
  [chunk(<<>>, <<>>, <<>>) EXCEPT
     !.tool_result = <<[id |-> id, result |-> result]>>]

canceledChunk == chunk(CancelMarker, <<>>, <<>>)

frameErrorChunk ==
  [chunk(ErrorMarker, <<>>, <<>>) EXCEPT !.error = TRUE,
                                         !.errorDetails = "APIError"]

criticalErrorChunk ==
  [chunk(CriticalErrorMarker, <<>>, <<>>) EXCEPT !.error = TRUE,
                                                 !.errorDetails = "Error"]

noChunk == chunk(<<>>, <<>>, <<>>)

(***************************************************************************)
(* The lines of a response stream, already split: a data line holds the   *)
(* sentinel [DONE], text that does not parse, or a parsed frame            *)
(* {error?, choices: [{delta: {content?, reasoning?, tool_calls?,          *)
(* images?}, finish_reason?}]}.                                            *)
(***************************************************************************)
frame(content, reasoning, tool_calls, finish_reason) ==
  [kind |-> "data", error |-> FALSE, content |-> content,
   reasoning |-> reasoning, tool_calls |-> tool_calls, images |-> <<>>,
   finish_reason |-> finish_reason]

doneLine == [frame(<<>>, <<>>, <<>>, Null) EXCEPT !.kind = "[DONE]"]

errorFrame == [frame(<<>>, <<>>, <<>>, Null) EXCEPT !.error = TRUE]

\* what one parsed frame makes the generator yield, in order
frameChunks(f) ==
  IF f.kind # "data" THEN <<>>
  ELSE IF f.error THEN <<frameErrorChunk>>
  ELSE (IF f.content # <<>>
        THEN <<chunk(f.content, <<>>, f.tool_calls)>> ELSE <<>>)
       \o (IF f.reasoning # <<>>
           THEN <<chunk(<<>>, f.reasoning, f.tool_calls)>> ELSE <<>>)
       \o (IF f.tool_calls # <<>>
           THEN <<chunk(<<>>, <<>>, f.tool_calls)>> ELSE <<>>)
       \o (IF f.images # <<>>
           THEN <<[chunk(f.content, <<>>, <<>>) EXCEPT !.images = f.images]>>
           ELSE <<>>)

\* toolCallAccumulator: index -> {id, type, function: {name, arguments}}
accumulate(acc, d) ==
  LET existing == IF d.index \in DOMAIN acc
                  THEN acc[d.index]
                  ELSE [id |-> IF d.id # Null THEN d.id ELSE Undefined,
                        type |-> IF d.type # Null THEN d.type ELSE "function",
                        function |-> [name |-> <<>>, arguments |-> <<>>]]
      merged == [existing EXCEPT
                   !.id = IF d.id # Null THEN d.id ELSE @,
                   !.function.name = IF d.function.name # <<>>
                                     THEN d.function.name ELSE @,
                   !.function.arguments = @ \o d.function.arguments]
  IN  [i \in DOMAIN acc \cup {d.index} |->
         IF i = d.index THEN merged ELSE acc[i]]

RECURSIVE accumulateAll(_, _)
accumulateAll(acc, ds) ==
  IF ds = <<>> THEN acc
  ELSE accumulateAll(accumulate(acc, Head(ds)), Tail(ds))

\* Object.values(toolCallAccumulator): integer keys in ascending order
RECURSIVE objectValues(_)
objectValues(acc) ==
  IF DOMAIN acc = {} THEN <<>>
  ELSE LET i == Min(DOMAIN acc)
       IN  <<acc[i]>> \o objectValues([j \in DOMAIN acc \ {i} |-> acc[j]])

emptyAccumulator == [i \in {} |-> Null]

(***************************************************************************)
(* The turn before sendMessage is called.                                  *)
(***************************************************************************)
DefaultMaxToolIterations == 4

idleGen ==
  [pc |-> "idle", iteration |-> 0, toolCallAccumulator |-> emptyAccumulator,
   hadToolCalls |-> FALSE, finishedReason |-> Null, buffer |-> <<>>,
   lines |-> <<>>, outq |-> <<>>, after |-> "return",
   toolResultMessages |-> <<>>, intermediateMessages |-> <<>>]

\* what the turn has done so far, kept for the properties
noHist ==
  [requests |-> 0, toolRounds |-> 0, frames |-> 0, abortedAt |-> "never",
   requestsAtAbort |-> 0, lastChunk |-> noChunk, allRequestedTools |-> TRUE,
   fatal |-> "none", exit |-> "none", finalized |-> 0, finalStores |-> 0,
   persisted |-> <<>>, roundResults |-> <<>>, requestMessages |-> <<>>]

idleAssistantMsg == createAssistantMessage(NullTime)

NoReader ==
  /\ bytes = <<>>
  /\ delivered = 0
  /\ emitted = <<>>

idleExec ==
  [pc |-> "idle", completedToolCalls |-> <<>>, next |-> 1, args |-> <<>>,
   toolResultMessages |-> <<>>, executions |-> <<>>]

notFormatted == [msg |-> <<>>, api |-> <<>>]

\* currConvo.value when no conversation is open
noConvo == <<>>

noSnapshot == [taken |-> FALSE, parts |-> <<>>]

noPage ==
  [at |-> "none", route |-> noConvo, load |-> "none", mount |-> "none",
   called |-> FALSE]

noRequest ==
  [sent |-> FALSE, calls |-> 0, controller |-> 0, toolNames |-> <<>>,
   tool_use |-> FALSE, query |-> <<>>,
   body |-> [messages |-> <<>>, hasTools |-> FALSE, tools |-> <<>>,
             tool_choice |-> Undefined]]

noJob == [pc |-> "idle", calls |-> 0, title |-> <<>>, read |-> <<>>,
          messages |-> <<>>, metadata |-> <<>>]

noJobs == [store |-> noJob, title |-> noJob]

NoOther ==
  /\ metadata = <<>>
  /\ jobs = noJobs
  /\ snapshot = noSnapshot
  /\ currConvo = noConvo
  /\ storage = <<>>
  /\ generated = 0
  /\ request = noRequest
  /\ page = noPage

NoHelper ==
  /\ exec = idleExec
  /\ formatted = notFormatted
  /\ NoOther

NoManager ==
  /\ config = [tool_max_iterations |-> <<>>, tool_use |-> TRUE,
               enabledToolNames |-> <<>>, modelFound |-> TRUE]
  /\ messages = <<>>
  /\ assistantMsg = idleAssistantMsg
  /\ isLoading = FALSE
  /\ isIncognito = FALSE
  /\ aborted = FALSE
  /\ firstTokenReceived = FALSE
  /\ now = 0
  /\ sm = "idle"
  /\ gen = idleGen
  /\ hist = noHist

NoTurn ==
  /\ NoManager
  /\ NoReader
  /\ NoHelper

(***************************************************************************)
(* Inputs of the builder operations.                                       *)
(***************************************************************************)
ToolTypes == {"function", "custom"}

ToolIds == {"id1", "id2"}

Results == {"r1", "r2"}

toolDelta(index, id, type, name, arguments) ==
  [index |-> index, id |-> id, type |-> type,
   function |-> [name |-> name, arguments |-> arguments]]

\* name and arguments fragments as the endpoint sends them: the name first,
\* the arguments in pieces
NameArgs == {<<<<"s">>, <<"x">>>>, <<<<>>, <<"y">>>>}

BuilderDeltas ==
  {toolDelta(i, id, Null, na[1], na[2]) :
     i \in {0, 1}, id \in {Null} \cup ToolIds, na \in NameArgs}

BuilderTexts == {<<>>, <<"a">>}

BuilderReasoning == {<<"a">>, <<" ">>, <<"None">>}

Images ==
  {[image_url |-> "u1", url |-> Null, revised_prompt |-> Null],
   [image_url |-> Null, url |-> "u2", revised_prompt |-> "p"],
   [image_url |-> Null, url |-> Null, revised_prompt |-> Null]}

(***************************************************************************)
(* SpecBuilder: every sequence of operations on one PartsBuilder.          *)
(***************************************************************************)
BuilderInit ==
  /\ parts = <<>>
  /\ nOps = 0
  /\ last = noOp
  /\ frags = <<>>
  /\ seen = noneSeen
  /\ NoTurn

AppendContent ==
  /\ nOps < MaxOps
  /\ \E text \in BuilderTexts :
       /\ parts' = appendContent(parts, text)
       /\ last' = [noOp EXCEPT !.op = "appendContent", !.text = text]
  /\ nOps' = nOps + 1
  /\ UNCHANGED <<frags, seen, tvars, rvars, hvars>>

AppendReasoning ==
  /\ nOps < MaxOps
  /\ \E text \in BuilderReasoning :
       /\ parts' = appendReasoning(parts, text)
       /\ last' = [noOp EXCEPT !.op = "appendReasoning", !.text = text]
  /\ nOps' = nOps + 1
  /\ UNCHANGED <<frags, seen, tvars, rvars, hvars>>

AddOrUpdateTool ==
  /\ nOps < MaxOps
  /\ \E toolType \in ToolTypes, toolData \in BuilderDeltas :
       /\ parts' = addOrUpdateTool(parts, toolType, toolData)
       /\ last' = [noOp EXCEPT !.op = "addOrUpdateTool", !.toolType = toolType,
                               !.toolData = toolData]
  /\ nOps' = nOps + 1
  /\ UNCHANGED <<frags, seen, tvars, rvars, hvars>>

SetToolResult ==
  /\ nOps < MaxOps
  /\ \E toolId \in ToolIds, result \in Results :
       /\ parts' = setToolResult(parts, toolId, result)
       /\ last' = [noOp EXCEPT !.op = "setToolResult", !.toolId = toolId,
                               !.result = result,
                               !.found = setToolResultFound(parts, toolId)]
  /\ nOps' = nOps + 1
  /\ UNCHANGED <<frags, seen, tvars, rvars, hvars>>

ProcessImage ==
  /\ nOps < MaxOps
  /\ \E image \in Images :
       /\ parts' = processImage(parts, image)
       /\ last' = [noOp EXCEPT !.op = "processImage"]
  /\ nOps' = nOps + 1
  /\ UNCHANGED <<frags, seen, tvars, rvars, hvars>>

EnsureContentPartFirst ==
  /\ nOps < MaxOps
  /\ \E content \in BuilderTexts :
       /\ parts' = ensureContentPartFirst(parts, content)
       /\ last' = [noOp EXCEPT !.op = "ensureContentPartFirst", !.text = content]
  /\ nOps' = nOps + 1
  /\ UNCHANGED <<frags, seen, tvars, rvars, hvars>>

BuilderNext ==
  \/ AppendContent
  \/ AppendReasoning
  \/ AddOrUpdateTool
  \/ SetToolResult
  \/ ProcessImage
  \/ EnsureContentPartFirst

SpecBuilder == BuilderInit /\ [][BuilderNext]_vars

(***************************************************************************)
(* C1.  After every PartsBuilder operation no two adjacent parts have the  *)
(* same mergeable kind: never content next to content, image next to       *)
(* image, or two adjacent tool_group parts with the same toolType.         *)
(***************************************************************************)
sameMergeableKind(a, b) ==
  \/ a.type = "content" /\ b.type = "content"
  \/ a.type = "image" /\ b.type = "image"
  \/ a.type = "tool_group" /\ b.type = "tool_group" /\ a.toolType = b.toolType

NoAdjacentMergeable(ps) ==
  \A p \in 1..(Len(ps) - 1) : ~sameMergeableKind(ps[p], ps[p + 1])

C1_NoAdjacentSameKind == NoAdjacentMergeable(parts)

\* two tool groups of different toolType side by side after a content part
C1_Witness ==
  /\ Len(parts) = 3
  /\ parts[1].type = "content"
  /\ parts[2].type = "tool_group" /\ parts[3].type = "tool_group"

(***************************************************************************)
(* C6.  setToolResult(id, result) reaches a tool whose tool_group is no    *)
(* longer the last part: whenever a tool with that id sits in a tool_group *)
(* that is not the last part, the call returns true and exactly one tool,  *)
(* one that carries the id, gets the result; nothing else changes.         *)
(***************************************************************************)
toolPositions(ps) ==
  UNION {{<<p, i>> : i \in 1..Len(ps[p].tools)} :
           p \in {q \in 1..Len(ps) : ps[q].type = "tool_group"}}

C6_ResultAttachesAnywhere ==
  [][(/\ nOps' = nOps + 1
      /\ last'.op = "setToolResult"
      /\ \E p \in partsWithTool(parts, last'.toolId) : p < Len(parts))
     => /\ last'.found
        /\ \E pos \in toolPositions(parts) :
             /\ parts[pos[1]].tools[pos[2]].id = last'.toolId
             /\ parts' = [parts EXCEPT ![pos[1]].tools[pos[2]].result
                                          = last'.result]]_vars

C6_Witness ==
  /\ last.op = "setToolResult" /\ last.found
  /\ Len(parts) = 2
  /\ parts[1].type = "tool_group" /\ parts[2].type = "content"
  /\ parts[1].tools[1].id = last.toolId
  /\ parts[1].tools[1].result = last.result

(***************************************************************************)
(* C8.  The id of a tool call is assigned once: no addOrUpdateTool call    *)
(* changes the id of a tool that already has one.                          *)
(***************************************************************************)
C8_IdAssignedOnce ==
  [][LET before == getAllTools(parts)
         after  == getAllTools(parts')
     IN  \A k \in 1..Len(before) :
           before[k].id # Null => after[k].id = before[k].id]_vars

(***************************************************************************)
(* SpecDelta: the tool_call deltas of a response applied to a builder the  *)
(* way sendMessage applies them (toolType = tool.type || 'function').      *)
(***************************************************************************)
\* the first delta of a call carries id and name, later ones argument pieces
DeltaNameArgs ==
  {<<<<"s">>, <<>>>>, <<<<"t">>, <<>>>>, <<<<"s">>, <<"x">>>>,
   <<<<>>, <<"x">>>>, <<<<>>, <<"y">>>>}

StreamDeltas ==
  {toolDelta(i, IF na[1] # <<>> THEN "id1" ELSE Null, type, na[1], na[2]) :
     i \in {0, 1}, type \in {Null} \cup ToolTypes, na \in DeltaNameArgs}

processToolCall(ps, tool) ==
  addOrUpdateTool(ps, IF tool.type # Null THEN tool.type ELSE "function", tool)

DeltaInit ==
  /\ parts \in {<<>>, appendContent(<<>>, <<"a">>)}
  /\ nOps = 0
  /\ last = noOp
  /\ frags = <<>>
  /\ seen = noneSeen
  /\ NoTurn

ApplyDelta ==
  /\ nOps < MaxDeltas
  /\ \E tool \in StreamDeltas :
       /\ parts' = processToolCall(parts, tool)
       /\ seen' = [indexes |-> seen.indexes \cup {tool.index},
                   toolTypes |-> seen.toolTypes \cup
                       {IF tool.type # Null THEN tool.type ELSE "function"},
                   name |-> IF tool.function.name # <<>>
                            THEN tool.function.name ELSE seen.name,
                   arguments |-> seen.arguments \o tool.function.arguments]
  /\ nOps' = nOps + 1
  /\ UNCHANGED <<last, frags, tvars, rvars, hvars>>

SpecDelta == DeltaInit /\ [][ApplyDelta]_vars

(***************************************************************************)
(* C9.  Deltas carrying the same index build a single tool whose name is   *)
(* the last non-empty name fragment and whose arguments are the in-order   *)
(* concatenation of all argument fragments; the arguments only grow.       *)
(***************************************************************************)
singleToolAccumulated ==
  LET ts == getAllTools(parts)
  IN  /\ Len(ts) = 1
      /\ ts[1].index \in seen.indexes
      /\ ts[1].function.name = seen.name
      /\ ts[1].function.arguments = seen.arguments

argumentsOnlyGrow ==
  LET before == getAllTools(parts)
      after  == getAllTools(parts')
  IN  \A k \in 1..Len(before) :
        IsPrefix(before[k].function.arguments, after[k].function.arguments)

\* as claimed: for every delta sequence with one index
C9_SingleToolPerIndex ==
  (nOps > 0 /\ Cardinality(seen.indexes) = 1) => singleToolAccumulated

\* C9 as amended: for every delta sequence with one index and one tool type
\* (a missing type counting as 'function') the builder holds a single tool
\* with the last non-empty name and the concatenated arguments, and after
\* every delta the previous arguments string is a prefix of the new one.
C9_SingleToolPerIndexAndType ==
  /\ []((nOps > 0 /\ Cardinality(seen.indexes) = 1
                  /\ Cardinality(seen.toolTypes) = 1) => singleToolAccumulated)
  /\ [][argumentsOnlyGrow]_vars

\* name "s" then "t", arguments "x" then "y", with and without a type
C9_Witness ==
  /\ nOps = 3
  /\ seen.indexes = {0} /\ seen.toolTypes = {"function"}
  /\ seen.name = <<"t">> /\ seen.arguments = <<"x", "y">>
  /\ Len(getAllTools(parts)) = 1
  /\ getAllTools(parts)[1].function.arguments = <<"x", "y">>

(***************************************************************************)
(* SpecReasoning: the reasoning fragments of a response applied the way    *)
(* sendMessage applies them.                                               *)
(***************************************************************************)
ReasoningFrags ==
  {<<>>, <<" ">>, <<"a">>, <<"b", " ">>, <<"None">>, <<" ", "None">>}

\* sendMessage: if (chunk.reasoning && chunk.reasoning.trim() !== 'None')
processReasoning(ps, reasoning) ==
  IF reasoning # <<>> /\ trim(reasoning) # <<"None">>
  THEN appendReasoning(ps, reasoning)
  ELSE ps

ReasoningInit ==
  /\ parts \in {<<>>, appendContent(<<>>, <<"a">>)}
  /\ nOps = 0
  /\ last = noOp
  /\ frags = <<>>
  /\ seen = noneSeen
  /\ NoTurn

AppendReasoningFragment ==
  /\ Len(frags) < MaxFrags
  /\ \E text \in ReasoningFrags :
       /\ parts' = processReasoning(parts, text)
       /\ frags' = Append(frags, text)
       /\ last' = [noOp EXCEPT !.op = "appendReasoning", !.text = text]
  /\ nOps' = nOps + 1
  /\ UNCHANGED <<seen, tvars, rvars, hvars>>

SpecReasoning == ReasoningInit /\ [][AppendReasoningFragment]_vars

(***************************************************************************)
(* C10.  Reasoning fragments yield a single reasoning part holding the     *)
(* fragments from the first non-white-space one onward; the white space    *)
(* before it is discarded and a "None" fragment leaves the parts as they   *)
(* are.                                                                    *)
(***************************************************************************)
RECURSIVE concat(_)
concat(fs) == IF fs = <<>> THEN <<>> ELSE Head(fs) \o concat(Tail(fs))

RECURSIVE dropBlank(_)
dropBlank(fs) ==
  IF fs # <<>> /\ trim(Head(fs)) = <<>> THEN dropBlank(Tail(fs)) ELSE fs

isLiteralNone(f) == f = <<"None">>

isTrimmedNone(f) == trim(f) = <<"None">>

reasoningParts(ps) == SelectSeq(ps, LAMBDA part : part.type = "reasoning")

reasoningIs(text) ==
  /\ Len(reasoningParts(parts)) = 1
  /\ reasoningParts(parts)[1].content = text

\* as claimed: only the fragments equal to "None" are left out
C10_ReasoningFromFirstText ==
  LET kept == dropBlank(SelectSeq(frags, LAMBDA f : ~isLiteralNone(f)))
  IN  kept # <<>> => reasoningIs(concat(kept))

\* C10 as amended: the reasoning part holds the fragments from the first
\* non-white-space one onward, leaving out every fragment that equals "None"
\* once trimmed; such a fragment leaves the parts unchanged.
C10_ReasoningFromFirstTextTrimmedNone ==
  /\ [](LET kept == dropBlank(SelectSeq(frags, LAMBDA f : ~isTrimmedNone(f)))
        IN  kept # <<>> => reasoningIs(concat(kept)))
  /\ [][(Len(frags') = Len(frags) + 1 /\ isTrimmedNone(frags'[Len(frags')]))
        => parts' = parts]_vars

\* "", " ", then text: the white space part is replaced by the text
C10_Witness ==
  /\ frags = <<<<>>, <<" ">>, <<"a">>, <<"b", " ">>>>
  /\ reasoningIs(<<"a", "b", " ">>)

(***************************************************************************)
(* handleIncomingMessage, between two of its suspension points.  The       *)
(* generator is suspended in fetch ("fetch"), in reader.read() ("read"),   *)
(* in executeToolCallsLocally ("tools") or at a yield ("yielded"), or has  *)
(* returned.  A step gives the generator and the history afterwards, and   *)
(* in out the chunk it yielded, if it stopped at a yield.                  *)
(***************************************************************************)
modelSupportsTools_SchemasOnly(cfg) == Len(cfg.enabledToolNames) > 0

modelSupportsTools(cfg) == cfg.tool_use /\ Len(cfg.enabledToolNames) > 0

maxToolIterations(cfg) ==
  IF cfg.tool_max_iterations # <<>>
  THEN cfg.tool_max_iterations[1]
  ELSE DefaultMaxToolIterations

returned(g, h) ==
  [gen |-> [g EXCEPT !.pc = "returned", !.lines = <<>>, !.outq = <<>>],
   hist |-> h, out |-> <<>>]

yielding(g, h, c, rest, after) ==
  [gen |-> [g EXCEPT !.pc = "yielded", !.outq = rest, !.after = after],
   hist |-> h, out |-> <<c>>]

\* catch (error): error.name === "AbortError"
canceled_AsError(g, h) ==
  yielding([g EXCEPT !.lines = <<>>], [h EXCEPT !.exit = "canceled"],
           criticalErrorChunk, <<>>, "return")

canceled(g, h) ==
  yielding([g EXCEPT !.lines = <<>>], [h EXCEPT !.exit = "canceled"],
           canceledChunk, <<>>, "return")

\* catch (error): every other error
critical(g, h, kind) ==
  yielding([g EXCEPT !.lines = <<>>],
           [h EXCEPT !.exit = "fatal", !.fatal = kind],
           criticalErrorChunk, <<>>, "return")

\* the messages of this user turn: the history is empty
baseMessages == <<[role |-> "user", content |-> <<"q">>]>>

\* [...baseMessages, ...intermediateMessages]
messagesForThisCall(g) == baseMessages \o g.intermediateMessages

\* top of the while loop up to the await of fetch; fetch on an aborted
\* signal rejects without sending
startRequest(g, h, isAborted) ==
  IF isAborted
  THEN canceled(g, h)
  ELSE [gen |-> [g EXCEPT !.pc = "fetch", !.lines = <<>>, !.outq = <<>>],
        hist |-> [h EXCEPT !.requests = @ + 1,
                           !.requestMessages = messagesForThisCall(g)],
        out |-> <<>>]

RECURSIVE forLines(_, _), afterFrame(_, _)
\* for (const line of lines), from the first line not yet looked at
forLines(g, h) ==
  IF g.lines = <<>>
  THEN [gen |-> [g EXCEPT !.pc = "read", !.outq = <<>>], hist |-> h,
        out |-> <<>>]
  ELSE LET line == Head(g.lines)
           rest == Tail(g.lines)
       IN  IF line.kind = "junk"
           THEN forLines([g EXCEPT !.lines = rest], h)
           ELSE IF line.kind = "[DONE]"
           THEN forLines([g EXCEPT !.lines = <<>>], h)
           ELSE IF line.error
           THEN yielding([g EXCEPT !.lines = <<>>], h, frameErrorChunk,
                         <<>>, "throw")
           ELSE LET g1 == [g EXCEPT
                             !.toolCallAccumulator =
                                accumulateAll(@, line.tool_calls),
                             !.hadToolCalls = @ \/ line.tool_calls # <<>>,
                             !.finishedReason =
                                IF line.finish_reason # Null
                                THEN line.finish_reason ELSE @,
                             !.lines = rest]
                    cs == frameChunks(line)
                IN  IF cs # <<>>
                    THEN yielding(g1, h, Head(cs), Tail(cs), "frame")
                    ELSE afterFrame(g1, h)

\* if (finishedReason === "tool_calls") break;
afterFrame(g, h) ==
  IF g.finishedReason = "tool_calls"
  THEN forLines([g EXCEPT !.lines = <<>>], h)
  ELSE forLines(g, h)

\* reader.read() gave done: from releaseLock to the next suspension
endOfResponse_OneMore(g, h, cfg) ==
  LET h1 == [h EXCEPT !.allRequestedTools = @ /\ g.hadToolCalls]
      iteration == g.iteration + 1
  IN  IF ~g.hadToolCalls \/ ~modelSupportsTools(cfg)
      THEN returned(g, [h1 EXCEPT !.exit = "normal"])
      ELSE IF iteration > maxToolIterations(cfg)
      THEN returned([g EXCEPT !.iteration = iteration],
                    [h1 EXCEPT !.exit = "maxIterations"])
      ELSE [gen |-> [g EXCEPT !.iteration = iteration, !.pc = "tools"],
            hist |-> [h1 EXCEPT !.toolRounds = @ + 1,
                                !.roundResults = <<>>],
            out |-> <<>>]

endOfResponse(g, h, cfg) ==
  LET h1 == [h EXCEPT !.allRequestedTools = @ /\ g.hadToolCalls]
      iteration == g.iteration + 1
  IN  IF ~g.hadToolCalls \/ ~modelSupportsTools(cfg)
      THEN returned(g, [h1 EXCEPT !.exit = "normal"])
      ELSE IF iteration >= maxToolIterations(cfg)
      THEN returned([g EXCEPT !.iteration = iteration],
                    [h1 EXCEPT !.exit = "maxIterations"])
      ELSE [gen |-> [g EXCEPT !.iteration = iteration, !.pc = "tools"],
            hist |-> [h1 EXCEPT !.toolRounds = @ + 1,
                                !.roundResults = <<>>],
            out |-> <<>>]

\* executeToolCallsLocally: one tool message per completed tool call
toolResultMessages(completedToolCalls, results) ==
  [i \in 1..Len(completedToolCalls) |->
     [role |-> "tool", tool_call_id |-> completedToolCalls[i].id,
      content |-> results[i]]]

toolResultChunks(toolMsgs) ==
  [i \in 1..Len(toolMsgs) |->
     toolResultChunk(toolMsgs[i].tool_call_id, toolMsgs[i].content)]

\* the assistant message that carries the tool calls of the round
assistantToolCalls(completedToolCalls) ==
  [role |-> "assistant", content |-> <<>>,
   tool_calls |-> [i \in 1..Len(completedToolCalls) |->
                     [id |-> completedToolCalls[i].id,
                      type |-> completedToolCalls[i].type,
                      function |-> completedToolCalls[i].function]]]

pushIntermediate_AssistantOnly(g) ==
  [g EXCEPT !.intermediateMessages =
       @ \o <<assistantToolCalls(objectValues(g.toolCallAccumulator))>>,
     !.toolResultMessages = <<>>]

\* intermediateMessages.push(assistant(tool_calls), ...toolResultMessages)
pushIntermediate(g) ==
  [g EXCEPT !.intermediateMessages =
       @ \o <<assistantToolCalls(objectValues(g.toolCallAccumulator))>>
         \o g.toolResultMessages,
     !.toolResultMessages = <<>>]

\* the generator is resumed at the yield it stopped at
resume(g, h, isAborted) ==
  IF g.outq # <<>>
  THEN yielding(g, h, Head(g.outq), Tail(g.outq), g.after)
  ELSE CASE g.after = "frame" -> afterFrame(g, h)
         [] g.after = "throw" -> critical(g, h, "frame")
         [] g.after = "results" ->
              startRequest(pushIntermediate(g), h, isAborted)
         [] OTHER -> returned(g, h)

(***************************************************************************)
(* sendMessage: the body of its for await loop, and its finally block.     *)
(* The state of the consumer is {msg, parts, received}: the assistantMsg   *)
(* object of the call, partsBuilder.parts and timing.firstTokenReceived.   *)
(***************************************************************************)
RECURSIVE processImages(_, _)
processImages(ps, images) ==
  IF images = <<>> THEN ps
  ELSE processImages(processImage(ps, Head(images)), Tail(images))

RECURSIVE processToolCalls(_, _)
processToolCalls(ps, tool_calls) ==
  IF tool_calls = <<>> THEN ps
  ELSE processToolCalls(processToolCall(ps, Head(tool_calls)),
                        Tail(tool_calls))

processContent_LegacyOnly(s, c, t) ==
  IF c.content # <<>>
  THEN [msg |-> endReasoning(
                  markFirstToken([s.msg EXCEPT !.content = @ \o c.content],
                                 s.received, t), t),
        parts |-> s.parts,
        received |-> TRUE]
  ELSE s

processContent(s, c, t) ==
  IF c.content # <<>>
  THEN [msg |-> endReasoning(
                  markFirstToken([s.msg EXCEPT !.content = @ \o c.content],
                                 s.received, t), t),
        parts |-> appendContent(s.parts, c.content),
        received |-> TRUE]
  ELSE s

legacyReasoning(reasoning, text) ==
  IF trim(reasoning) = <<>> /\ trim(text) # <<>>
  THEN text
  ELSE reasoning \o text

processChunkReasoning(s, c, t) ==
  IF c.reasoning # <<>> /\ trim(c.reasoning) # <<"None">>
  THEN [msg |-> startReasoning(
                  markFirstToken(
                    [s.msg EXCEPT
                       !.reasoning = legacyReasoning(@, c.reasoning)],
                    s.received, t), t),
        parts |-> appendReasoning(s.parts, c.reasoning),
        received |-> TRUE]
  ELSE s

processToolResult(ps, c) ==
  IF c.tool_result # <<>>
  THEN setToolResult(ps, c.tool_result[1].id, c.tool_result[1].result)
  ELSE ps

processChunk(s, c, t) ==
  LET s1 == processContent(s, c, t)
      s2 == [s1 EXCEPT !.parts = processImages(@, c.images)]
      s3 == processChunkReasoning(s2, c, t)
      s4 == [s3 EXCEPT !.parts = processToolCalls(@, c.tool_calls)]
  IN  [s4 EXCEPT !.parts = processToolResult(@, c)]

\* lines 371-395: what the call leaves in assistantMsg and the builder
finalParts(s) ==
  IF hasImagePart(s.parts) /\ ~hasContentPart(s.parts) /\ s.msg.content # <<>>
  THEN ensureContentPartFirst(s.parts, s.msg.content)
  ELSE s.parts

finalAssistantMsg(s) ==
  [s.msg EXCEPT !.parts = toArray(finalParts(s)),
                !.tool_calls = getAllTools(s.parts),
                !.reasoning = IF trim(@) = <<>> THEN <<>> ELSE @]

\* lines 397-412: what the finally block leaves in the message list
finalMessages(msgs, msg, t) ==
  LET completed == updateAssistantMessage(msgs, msg,
                     [complete |-> TRUE, completionTime |-> t,
                      reasoningDuration |->
                        calculateReasoningDuration(msg, t)])
  IN  IF msg.complete /\ msg.content = <<>> /\ msg.errorDetails # Null
      THEN updateAssistantMessage(completed, msg, [content |-> ErrorMarker])
      ELSE completed

(***************************************************************************)
(* The lines a response stream delivers.  Frames that carry images, alone  *)
(* or next to content, reasoning and tool calls, are those of SpecFrame.   *)
(***************************************************************************)
MaxFrames == 3

MaxLines == 2

junkLine == [frame(<<>>, <<>>, <<>>, Null) EXCEPT !.kind = "junk"]

StreamImage == [image_url |-> "u1", url |-> Null, revised_prompt |-> Null]

StreamLines ==
  {frame(<<"a">>, <<>>, <<>>, Null),
   frame(<<>>, <<"r">>, <<>>, Null),
   frame(<<>>, <<>>, <<toolDelta(0, "id1", "function", <<"s">>, <<"x">>)>>,
         Null),
   frame(<<>>, <<>>, <<toolDelta(1, "id2", "function", <<"s">>, <<"y">>)>>,
         Null),
   frame(<<>>, <<>>, <<>>, "tool_calls"),
   doneLine, junkLine, errorFrame}

LinesOfRead(n) ==
  UNION {[1..k -> StreamLines] : k \in 1..Min({n, MaxLines})}

Configs ==
  [tool_max_iterations : {<<>>, <<1>>, <<2>>},
   tool_use : BOOLEAN,
   enabledToolNames : {<<>>, <<"tool">>},
   modelFound : BOOLEAN]

(***************************************************************************)
(* Spec: one call of sendMessage, from the click to the end of its finally *)
(* block, with the user free to abort while it is in flight.  Line 401     *)
(* enables no tool; the loop is followed with a tool enabled as well, the  *)
(* case its tool rounds are written for.                                   *)
(***************************************************************************)
Init ==
  /\ parts = <<>>
  /\ nOps = 0
  /\ last = noOp
  /\ frags = <<>>
  /\ seen = noneSeen
  /\ config \in Configs
  /\ messages = <<>>
  /\ assistantMsg = idleAssistantMsg
  /\ isLoading = FALSE
  /\ isIncognito \in BOOLEAN
  /\ aborted = FALSE
  /\ firstTokenReceived = FALSE
  /\ now = 0
  /\ sm = "idle"
  /\ gen = idleGen
  /\ hist = noHist
  /\ NoReader
  /\ NoHelper

\* the finally block, once the generator has returned
Finalize(s, msgs, g, h) ==
  /\ assistantMsg' = finalAssistantMsg(s)
  /\ parts' = finalParts(s)
  /\ firstTokenReceived' = s.received
  /\ messages' = finalMessages(msgs, s.msg, now)
  /\ isLoading' = FALSE
  /\ sm' = "done"
  /\ gen' = g
  /\ hist' = [h EXCEPT !.finalized = @ + 1,
                       !.finalStores = IF ~isIncognito THEN @ + 1 ELSE @,
                       !.persisted = IF ~isIncognito
                                     THEN finalMessages(msgs, s.msg, now)
                                     ELSE @]

\* the consumer takes what a step of the generator produced
Deliver(r) ==
  LET s0 == [msg |-> assistantMsg, parts |-> parts,
             received |-> firstTokenReceived]
  IN  /\ now' = tick(now)
      /\ UNCHANGED <<nOps, last, frags, seen, config, isIncognito, aborted,
                     rvars, hvars>>
      /\ IF r.gen.pc = "returned"
         THEN Finalize(s0, messages, r.gen, r.hist)
         ELSE IF r.out # <<>>
         THEN LET s1 == processChunk(s0, r.out[1], now)
              IN  /\ assistantMsg' = s1.msg
                  /\ parts' = s1.parts
                  /\ firstTokenReceived' = s1.received
                  /\ messages' = updateMessageReactivity(messages, s1.msg,
                                                         s1.parts)
                  /\ gen' = r.gen
                  /\ hist' = [r.hist EXCEPT
                                !.lastChunk = r.out[1],
                                !.roundResults =
                                   IF r.out[1].tool_result # <<>>
                                   THEN Append(@, r.out[1])
                                   ELSE @]
                  /\ UNCHANGED <<isLoading, sm>>
         ELSE /\ gen' = r.gen
              /\ hist' = r.hist
              /\ UNCHANGED <<assistantMsg, parts, firstTokenReceived,
                             messages, isLoading, sm>>

SendMessage ==
  /\ sm = "idle"
  /\ ~isLoading
  /\ LET msg == createAssistantMessage(now)
         listed == messages \o <<userMessage(<<"q">>), msg>>
         h == [hist EXCEPT !.persisted = IF ~isIncognito THEN listed ELSE @]
     IN  IF ~config.modelFound
         THEN /\ messages' = updateAssistantMessage(listed, msg,
                               [content |-> NoModelMarker, complete |-> TRUE])
              /\ assistantMsg' = msg
              /\ isLoading' = FALSE
              /\ sm' = "done"
              /\ hist' = [h EXCEPT !.exit = "noModel"]
              /\ UNCHANGED gen
         ELSE LET r == startRequest(idleGen, h, FALSE)
              IN  /\ messages' = listed
                  /\ assistantMsg' = msg
                  /\ isLoading' = TRUE
                  /\ sm' = "streaming"
                  /\ gen' = r.gen
                  /\ hist' = r.hist
  /\ now' = tick(now)
  /\ UNCHANGED <<bvars, rvars, hvars, config, isIncognito, aborted,
                 firstTokenReceived>>

\* controller.abort()
Abort ==
  /\ sm = "streaming"
  /\ ~aborted
  /\ gen.pc \in {"fetch", "read", "tools", "yielded"}
  /\ aborted' = TRUE
  /\ hist' = [hist EXCEPT !.abortedAt = gen.pc,
                          !.requestsAtAbort = hist.requests]
  /\ UNCHANGED <<bvars, rvars, hvars, config, messages, assistantMsg, isLoading,
                 isIncognito, firstTokenReceived, now, sm, gen>>

FetchRejected ==
  /\ sm = "streaming" /\ gen.pc = "fetch" /\ aborted
  /\ Deliver(canceled(gen, hist))

ResponseOk ==
  /\ sm = "streaming" /\ gen.pc = "fetch" /\ ~aborted
  /\ Deliver([gen |-> [gen EXCEPT !.pc = "read",
                                  !.toolCallAccumulator = emptyAccumulator,
                                  !.hadToolCalls = FALSE,
                                  !.finishedReason = Null,
                                  !.buffer = <<>>],
              hist |-> hist, out |-> <<>>])

ResponseNotOk ==
  /\ sm = "streaming" /\ gen.pc = "fetch" /\ ~aborted
  /\ Deliver(critical(gen, hist, "http"))

ReadLines ==
  /\ sm = "streaming" /\ gen.pc = "read" /\ ~aborted
  /\ hist.frames < MaxFrames
  /\ \E lines \in LinesOfRead(MaxFrames - hist.frames) :
       Deliver(forLines([gen EXCEPT !.lines = lines],
                        [hist EXCEPT !.frames = @ + Len(lines)]))

\* the stream had ended; an abort that came while read was pending, or
\* before the request was made, leaves no stream to end
ReadDone ==
  /\ sm = "streaming" /\ gen.pc = "read"
  /\ aborted => hist.abortedAt = "yielded"
  /\ Deliver(endOfResponse(gen, hist, config))

ReadRejected ==
  /\ sm = "streaming" /\ gen.pc = "read" /\ aborted
  /\ Deliver(canceled(gen, hist))

\* executeToolCallsLocally returned (SpecExec follows it call by call): one
\* message per completed tool call
ToolsReturn ==
  /\ sm = "streaming" /\ gen.pc = "tools"
  /\ LET completedToolCalls == objectValues(gen.toolCallAccumulator)
     IN  \E results \in [1..Len(completedToolCalls) -> Results] :
           LET toolMsgs == toolResultMessages(completedToolCalls, results)
               cs == toolResultChunks(toolMsgs)
           IN  Deliver(yielding([gen EXCEPT !.toolResultMessages = toolMsgs],
                                hist, Head(cs), Tail(cs), "results"))

Resume ==
  /\ sm = "streaming" /\ gen.pc = "yielded"
  /\ Deliver(resume(gen, hist, aborted))

Next ==
  \/ SendMessage
  \/ Abort
  \/ FetchRejected
  \/ ResponseOk
  \/ ResponseNotOk
  \/ ReadLines
  \/ ReadDone
  \/ ReadRejected
  \/ ToolsReturn
  \/ Resume

Spec == Init /\ [][Next]_vars

(***************************************************************************)
(* The assistant message of the turn as the message list holds it.         *)
(***************************************************************************)
listed == indexesOf(messages, assistantMsg.id) # {}

listedMsg == messages[Min(indexesOf(messages, assistantMsg.id))]

RECURSIVE contains(_, _)
contains(text, fragment) ==
  \/ IsPrefix(fragment, text)
  \/ text # <<>> /\ contains(Tail(text), fragment)

(***************************************************************************)
(* C2.  With tool use enabled and a model whose every response requests    *)
(* tool calls, a turn with maxToolIterations = N that is neither aborted   *)
(* nor hit by an error ends after exactly N invocations of                 *)
(* executeToolCallsLocally, its assistant message complete.                *)
(***************************************************************************)
C2_ExactlyMaxIterationsRounds ==
  (/\ sm = "done"
   /\ config.tool_use
   /\ hist.allRequestedTools
   /\ hist.exit \in {"normal", "maxIterations"})
  => /\ hist.toolRounds = maxToolIterations(config)
     /\ listed /\ listedMsg.complete

(***************************************************************************)
(* C3.  When the abort signal fires while the request is pending, while a  *)
(* read of the stream is awaited or while the tools execute, no request    *)
(* goes out after it, and the turn ends with the generator returned, the   *)
(* "[STREAM CANCELED]" chunk the last one it yielded, and the assistant    *)
(* message complete with content ending in that marker.                    *)
(***************************************************************************)
abortedInFlight == hist.abortedAt \in {"fetch", "read", "tools"}

reasoningDurationComputed(m) ==
  m.reasoningDuration =
    IF m.reasoningStartTime = NullTime
    THEN NullTime
    ELSE (IF m.reasoningEndTime # NullTime
          THEN m.reasoningEndTime ELSE m.completionTime)
         - m.reasoningStartTime

finalizedOnce ==
  /\ hist.finalized = 1
  /\ listed
  /\ listedMsg.complete
  /\ listedMsg.completionTime # NullTime
  /\ reasoningDurationComputed(listedMsg)
  /\ ~isLoading
  /\ ~isIncognito => hist.finalStores = 1 /\ hist.persisted = messages

C5_FatalErrorRecorded ==
  (sm = "done" /\ hist.exit = "fatal")
  => /\ listed
     /\ listedMsg.complete
     /\ \/ contains(listedMsg.content, ErrorMarker)
        \/ contains(listedMsg.content, CriticalErrorMarker)
     /\ listedMsg.errorDetails # Null

ContentFrags == {<<>>, <<"a">>, <<"b">>, <<"a", " ">>}

ContentBases == {<<>>, appendReasoning(<<>>, <<"r">>)}

ContentInit ==
  /\ parts \in ContentBases
  /\ nOps = 0
  /\ last = noOp
  /\ frags = <<>>
  /\ seen = noneSeen
  /\ NoTurn

AppendContentFragment ==
  /\ Len(frags) < MaxFrags
  /\ \E text \in ContentFrags :
       /\ parts' = appendContent(parts, text)
       /\ frags' = Append(frags, text)
       /\ last' = [noOp EXCEPT !.op = "appendContent", !.text = text]
  /\ nOps' = nOps + 1
  /\ UNCHANGED <<seen, tvars, rvars, hvars>>

SpecContent == ContentInit /\ [][AppendContentFragment]_vars

(***************************************************************************)
(* C11.  Consecutive content fragments yield exactly one content part, the *)
(* last part of the builder, whose text is the in-order concatenation of   *)
(* the fragments; an empty fragment creates no part and alters no text.    *)
(***************************************************************************)
contentParts(ps) == SelectSeq(ps, LAMBDA part : part.type = "content")

otherParts(ps) == SelectSeq(ps, LAMBDA part : part.type # "content")

contentIs(text) ==
  IF text = <<>>
  THEN contentParts(parts) = <<>>
  ELSE /\ Len(contentParts(parts)) = 1
       /\ parts[Len(parts)].type = "content"
       /\ parts[Len(parts)].content = text

C11_OneContentPartConcatenated ==
  /\ [](contentIs(concat(frags)) /\ otherParts(parts) \in ContentBases)
  /\ [][(Len(frags') = Len(frags) + 1 /\ frags'[Len(frags')] = <<>>)
        => parts' = parts]_vars

\* an empty fragment first and another between two texts, after reasoning
C11_Witness ==
  /\ frags = <<<<>>, <<"a", " ">>, <<>>, <<"b">>>>
  /\ Len(parts) = 2
  /\ parts[1].type = "reasoning"
  /\ parts[2].content = <<"a", " ", "b">>

(***************************************************************************)
(* C12.  After every chunk of a turn and at its completion the legacy      *)
(* content string of the assistant message equals the in-order             *)
(* concatenation of the text of the content parts of its parts.            *)
(***************************************************************************)
RECURSIVE flattened(_)
flattened(ps) ==
  IF ps = <<>> THEN <<>>
  ELSE (IF Head(ps).type = "content" THEN Head(ps).content ELSE <<>>)
       \o flattened(Tail(ps))

\* as claimed: every assistant message sendMessage creates
C12_ContentEqualsContentParts ==
  listed => listedMsg.content = flattened(listedMsg.parts)

\* C12 as amended: in every call of sendMessage that found the selected
\* model, after every chunk and at completion, the content string of the
\* assistant message equals the concatenation of its content parts, in the
\* message list and in the call's own message and builder.
C12_ContentEqualsContentPartsOfStream ==
  (sm # "idle" /\ hist.exit # "noModel")
  => /\ listed
     /\ listedMsg.content = flattened(listedMsg.parts)
     /\ assistantMsg.content = flattened(parts)

\* content, reasoning, content: two content parts
C12_Witness ==
  /\ sm = "done"
  /\ Len(contentParts(listedMsg.parts)) = 2
  /\ listedMsg.content = <<"a", "a">>

(***************************************************************************)
(* SpecReader: the read loop of one response, the body arriving in reads   *)
(* of any size.  A line is the sequence of the pieces it is made of; a     *)
(* read may end between two of them.                                       *)
(***************************************************************************)
MaxBodyLines == 3

contentData == <<"data: {content:", "a}">>

reasoningData == <<"data: {reasoning:", "r}">>

doneData == <<"data: [DO", "NE]">>

finishData == <<"data: {finish_reason:", "tool_calls}">>

errorData == <<"data: {error:", "e}">>

LineTexts == {contentData, reasoningData, doneData, finishData, errorData}

\* line.startsWith("data: "), line.slice(6), JSON.parse
parseLine(line) ==
  CASE line = contentData -> frame(<<"a">>, <<>>, <<>>, Null)
    [] line = reasoningData -> frame(<<>>, <<"r">>, <<>>, Null)
    [] line = doneData -> doneLine
    [] line = finishData -> frame(<<>>, <<>>, <<>>, "tool_calls")
    [] line = errorData -> errorFrame
    [] OTHER -> junkLine

\* buffer.split("\n")
RECURSIVE splitLines(_, _, _)
splitLines(text, line, lines) ==
  IF text = <<>> THEN Append(lines, line)
  ELSE IF Head(text) = "\n"
  THEN splitLines(Tail(text), <<>>, Append(lines, line))
  ELSE splitLines(Tail(text), Append(line, Head(text)), lines)

split(text) == splitLines(text, <<>>, <<>>)

RECURSIVE join(_)
join(lines) ==
  IF lines = <<>> THEN <<>> ELSE Head(lines) \o <<"\n">> \o join(Tail(lines))

\* every line ends in "\n", but for a last one that was cut short
Bodies ==
  UNION {{join(ls), join(SubSeq(ls, 1, Len(ls) - 1)) \o <<Head(ls[Len(ls)])>>} :
           ls \in UNION {[1..k -> LineTexts] : k \in 1..MaxBodyLines}}

\* the generator run from one await of reader.read() to the next, the
\* consumer taking every chunk it yields on the way
RECURSIVE drain(_, _)
drain(r, out) ==
  IF r.gen.pc = "yielded"
  THEN drain(resume(r.gen, r.hist, FALSE), out \o r.out)
  ELSE [gen |-> r.gen, hist |-> r.hist, out |-> out]

\* buffer += decode(value); lines = buffer.split("\n"); buffer = lines.pop()
readValue(g, h, value) ==
  LET lines == split(g.buffer \o value)
  IN  drain(forLines([g EXCEPT
                        !.buffer = lines[Len(lines)],
                        !.lines = [i \in 1..(Len(lines) - 1) |->
                                     parseLine(lines[i])]],
                     h),
            <<>>)

readerStart == [idleGen EXCEPT !.pc = "read"]

ReaderInit ==
  /\ parts = <<>>
  /\ nOps = 0
  /\ last = noOp
  /\ frags = <<>>
  /\ seen = noneSeen
  /\ config = [tool_max_iterations |-> <<>>, tool_use |-> TRUE,
               enabledToolNames |-> <<>>, modelFound |-> TRUE]
  /\ messages = <<>>
  /\ assistantMsg = idleAssistantMsg
  /\ isLoading = FALSE
  /\ isIncognito = FALSE
  /\ aborted = FALSE
  /\ firstTokenReceived = FALSE
  /\ now = 0
  /\ sm = "idle"
  /\ gen = readerStart
  /\ hist = noHist
  /\ bytes \in Bodies
  /\ delivered = 0
  /\ emitted = <<>>
  /\ NoHelper

ReaderRead ==
  /\ gen.pc = "read"
  /\ \E k \in 1..(Len(bytes) - delivered) :
       LET r == readValue(gen, hist, SubSeq(bytes, delivered + 1, delivered + k))
       IN  /\ gen' = r.gen
           /\ hist' = r.hist
           /\ emitted' = emitted \o r.out
           /\ delivered' = delivered + k
  /\ UNCHANGED <<bvars, bytes, hvars, config, messages, assistantMsg, isLoading,
                 isIncognito, aborted, firstTokenReceived, now, sm>>

ReaderDone ==
  /\ gen.pc = "read"
  /\ delivered = Len(bytes)
  /\ LET r == endOfResponse(gen, hist, config)
     IN  gen' = r.gen /\ hist' = r.hist
  /\ UNCHANGED <<bvars, rvars, hvars, config, messages, assistantMsg, isLoading,
                 isIncognito, aborted, firstTokenReceived, now, sm>>

SpecReader == ReaderInit /\ [][ReaderRead \/ ReaderDone]_vars

(***************************************************************************)
(* C14.  The chunks emitted for a response depend on its bytes only, not   *)
(* on how the reads cut them: nothing is emitted for a line before its     *)
(* newline has arrived, and when the response has ended the chunks are     *)
(* those of the same bytes delivered by a single read.                     *)
(***************************************************************************)
emittedInOneRead(body) == readValue(readerStart, noHist, body).out

C14_ChunksIndependentOfReads ==
  /\ (\A i \in 1..delivered : bytes[i] # "\n") => emitted = <<>>
  /\ gen.pc = "returned" => emitted = emittedInOneRead(bytes)

(***************************************************************************)
(* C15.  Once a terminating line of the response has been processed (the   *)
(* [DONE] sentinel, or a frame with finish_reason "tool_calls"), no chunk  *)
(* is emitted for any later line, in the same read or in a later one.      *)
(***************************************************************************)
isTerminator(line) ==
  \/ parseLine(line) = doneLine
  \/ parseLine(line).finish_reason = "tool_calls"

\* the lines whose newline has been delivered
deliveredLines ==
  LET lines == split(SubSeq(bytes, 1, delivered))
  IN  SubSeq(lines, 1, Len(lines) - 1)

terminatorProcessed ==
  \E i \in 1..Len(deliveredLines) : isTerminator(deliveredLines[i])

C15_NothingAfterTerminator ==
  [][terminatorProcessed => emitted' = emitted]_vars

(***************************************************************************)
(* C18.  Under Spec: when the request of a later round goes out, every     *)
(* tool call of the round before it has had exactly one tool_result chunk  *)
(* yielded, in the order of the calls and with the id of its call, and the *)
(* messages of the request are those of the request before, then an        *)
(* assistant message listing the tool calls of the round, then one tool    *)
(* message per call with the id of the call and the result of its chunk.   *)
(***************************************************************************)
C18_ToolResultsYieldedAndSent ==
  [][(hist.requests >= 1 /\ hist'.requests = hist.requests + 1)
     => LET calls == objectValues(gen.toolCallAccumulator)
            n == Len(calls)
            base == Len(hist.requestMessages)
            req == hist'.requestMessages
        IN  /\ Len(hist.roundResults) = n
            /\ Len(req) = base + 1 + n
            /\ SubSeq(req, 1, base) = hist.requestMessages
            /\ SubSeq(req, 1, Len(baseMessages)) = baseMessages
            /\ req[base + 1].role = "assistant"
            /\ Len(req[base + 1].tool_calls) = n
            /\ \A i \in 1..n :
                 /\ hist.roundResults[i].tool_result[1].id = calls[i].id
                 /\ req[base + 1].tool_calls[i].id = calls[i].id
                 /\ req[base + 1 + i].role = "tool"
                 /\ req[base + 1 + i].tool_call_id = calls[i].id
                 /\ req[base + 1 + i].content
                      = hist.roundResults[i].tool_result[1].result]_vars

\* the second request, after a round of two tool calls with two results
C18_Witness ==
  /\ hist.requests = 2
  /\ gen.pc = "fetch"
  /\ Len(hist.roundResults) = 2
  /\ Len(hist.requestMessages) = 4
  /\ hist.requestMessages[3].tool_call_id = "id1"
  /\ hist.requestMessages[3].content = "r1"
  /\ hist.requestMessages[4].tool_call_id = "id2"
  /\ hist.requestMessages[4].content = "r2"

(***************************************************************************)
(* C19.  Under Spec: the generator goes from the end of a response to the  *)
(* execution of tools only if the response had tool calls, the model's     *)
(* tool_use is not false and a tool schema is enabled; when one of the     *)
(* three fails the turn ends at that step, with no tool round and no       *)
(* further request.                                                        *)
(***************************************************************************)
toolsCalledFor ==
  gen.hadToolCalls /\ config.tool_use /\ config.enabledToolNames # <<>>

responseEnds == gen.pc = "read" /\ gen'.pc \in {"tools", "returned"}

C19_ToolsOnlyWhenCalledFor ==
  [][/\ (gen.pc # "tools" /\ gen'.pc = "tools")
        => responseEnds /\ toolsCalledFor
     /\ (responseEnds /\ ~toolsCalledFor)
        => /\ gen'.pc = "returned"
           /\ sm' = "done"
           /\ hist'.exit = "normal"
           /\ hist'.toolRounds = hist.toolRounds
           /\ hist'.requests = hist.requests]_vars

\* a response with tool calls for a model whose tool_use is false
C19_Witness ==
  /\ sm = "done"
  /\ gen.hadToolCalls
  /\ ~config.tool_use
  /\ config.enabledToolNames # <<>>
  /\ hist.exit = "normal"
  /\ hist.requests = 1
  /\ hist.toolRounds = 0

(***************************************************************************)
(* C16.  Under Spec: once the error chunk of a frame carrying an error     *)
(* object has been emitted, it stays the last chunk of the turn and no     *)
(* further completion request is issued.                                   *)
(***************************************************************************)
C16_ErrorChunkIsLast ==
  [][hist.lastChunk = frameErrorChunk
     => /\ hist'.lastChunk = frameErrorChunk
        /\ hist'.requests = hist.requests]_vars

(***************************************************************************)
(* executeToolCallsLocally taken alone.  The tool registry holds one tool, *)
(* "tool"; the executor is code the registry was given, so what it does is *)
(* an input: it returns a value or throws one.                             *)
(***************************************************************************)
MaxCalls == 2

registeredTools == {"tool"}

\* toolManager.getTool(name): the tool, or undefined
getTool(name) == IF name \in registeredTools THEN name ELSE Undefined

\* texts of function.arguments: none, an object, an object cut short
ArgumentTexts == {<<>>, <<"{", "x", "}">>, <<"{", "x">>}

ToolCalls ==
  {[id |-> id, type |-> "function",
    function |-> [name |-> name, arguments |-> arguments]] :
     id \in ToolIds, name \in {"tool", "nope"}, arguments \in ArgumentTexts}

CompletedToolCalls == UNION {[1..k -> ToolCalls] : k \in 0..MaxCalls}

emptyObject == <<"{", "}">>

isJSON(text) == Len(text) >= 2 /\ text[1] = "{" /\ text[Len(text)] = "}"

\* let args = {}; try { args = JSON.parse(arguments || "{}") } catch {}
parseArguments(arguments) ==
  LET text == IF arguments = <<>> THEN emptyObject ELSE arguments
  IN  IF isJSON(text) THEN text ELSE emptyObject

\* what an executor returns: a value, nothing, a value JSON.stringify
\* rejects (a cyclic object)
ExecutorResults == {"r1", Undefined, "cyclic"}

\* what an executor throws: an Error with a message, an Error without one,
\* a string, null or undefined
ExecutorErrors ==
  {[kind |-> "Error", message |-> <<"m">>],
   [kind |-> "Error", message |-> <<>>],
   [kind |-> "string", message |-> <<>>],
   [kind |-> "nullish", message |-> <<>>]}

stringifyError == [kind |-> "Error", message |-> <<"cyclic">>]

\* err.message || String(err)
errorText(err) ==
  IF err.kind = "Error" /\ err.message # <<>>
  THEN err.message
  ELSE <<err.kind>>

toolMessage(toolCall, content) ==
  [role |-> "tool", tool_call_id |-> toolCall.id,
   name |-> toolCall.function.name, content |-> content]

unknownToolContent(name) == <<"{error: Unknown tool", name, "}">>

failedContent(err) ==
  <<"{error: Tool execution failed:">> \o errorText(err) \o <<"}">>

\* JSON.stringify(result ?? null)
resultContent(result) ==
  IF result = Undefined THEN <<"null">> ELSE <<result>>

\* the body of the for loop up to the await of the executor
lookup(e) ==
  LET toolCall == e.completedToolCalls[e.next]
      name == toolCall.function.name
      args == parseArguments(toolCall.function.arguments)
  IN  IF getTool(name) = Undefined
      THEN [e EXCEPT !.toolResultMessages =
                        Append(@, toolMessage(toolCall,
                                              unknownToolContent(name))),
                     !.next = @ + 1]
      ELSE [e EXCEPT !.pc = "executor", !.args = args,
                     !.executions =
                        Append(@, [index |-> e.next, name |-> name,
                                   args |-> args])]

\* catch (err) of the executor call
executorFailed(e, err) ==
  IF err.kind = "nullish"
  THEN [e EXCEPT !.pc = "threw"]
  ELSE [e EXCEPT !.pc = "loop", !.next = @ + 1,
                 !.toolResultMessages =
                    Append(@, toolMessage(e.completedToolCalls[e.next],
                                          failedContent(err)))]

\* the executor returned result
executorReturned(e, result) ==
  IF result = "cyclic"
  THEN executorFailed(e, stringifyError)
  ELSE [e EXCEPT !.pc = "loop", !.next = @ + 1,
                 !.toolResultMessages =
                    Append(@, toolMessage(e.completedToolCalls[e.next],
                                          resultContent(result)))]

ExecInit ==
  /\ parts = <<>>
  /\ nOps = 0
  /\ last = noOp
  /\ frags = <<>>
  /\ seen = noneSeen
  /\ NoManager
  /\ NoReader
  /\ NoOther
  /\ formatted = notFormatted
  /\ \E calls \in CompletedToolCalls :
       exec = [idleExec EXCEPT !.pc = "loop", !.completedToolCalls = calls]

ExecLookup ==
  /\ exec.pc = "loop"
  /\ exec.next <= Len(exec.completedToolCalls)
  /\ exec' = lookup(exec)
  /\ UNCHANGED <<bvars, tvars, rvars, svars, formatted, xvars>>

ExecutorReturns ==
  /\ exec.pc = "executor"
  /\ \E result \in ExecutorResults : exec' = executorReturned(exec, result)
  /\ UNCHANGED <<bvars, tvars, rvars, svars, formatted, xvars>>

ExecutorThrows ==
  /\ exec.pc = "executor"
  /\ \E err \in ExecutorErrors : exec' = executorFailed(exec, err)
  /\ UNCHANGED <<bvars, tvars, rvars, svars, formatted, xvars>>

ExecReturn ==
  /\ exec.pc = "loop"
  /\ exec.next > Len(exec.completedToolCalls)
  /\ exec' = [exec EXCEPT !.pc = "returned"]
  /\ UNCHANGED <<bvars, tvars, rvars, svars, formatted, xvars>>

SpecExec ==
  ExecInit
  /\ [][ExecLookup \/ ExecutorReturns \/ ExecutorThrows \/ ExecReturn]_vars

(***************************************************************************)
(* C17.  Under SpecExec: executeToolCallsLocally never throws; every known *)
(* tool is executed, with the empty object for arguments that do not       *)
(* parse; and what it returns is one tool message per call, in the order   *)
(* of the calls, each with the id of its call.                             *)
(***************************************************************************)
oneMessagePerCall(n) ==
  /\ Len(exec.toolResultMessages) = n
  /\ \A i \in 1..n :
       /\ exec.toolResultMessages[i].role = "tool"
       /\ exec.toolResultMessages[i].tool_call_id
            = exec.completedToolCalls[i].id

knownCalls(n) ==
  {i \in 1..n : exec.completedToolCalls[i].function.name \in registeredTools}

everyKnownToolExecuted(n) ==
  /\ {x.index : x \in {exec.executions[j] : j \in 1..Len(exec.executions)}}
       = knownCalls(n)
  /\ \A j \in 1..Len(exec.executions) :
       ~isJSON(exec.completedToolCalls[exec.executions[j].index]
                 .function.arguments)
       => exec.executions[j].args = emptyObject

C17_OneToolMessagePerCall ==
  /\ exec.pc # "threw"
  /\ exec.pc = "returned"
     => /\ oneMessagePerCall(Len(exec.completedToolCalls))
        /\ everyKnownToolExecuted(Len(exec.completedToolCalls))

(***************************************************************************)
(* formatMessageForAPI taken alone, on assistant messages of the list: a   *)
(* message with parts gives one block per part that has something to       *)
(* show, sent as an array when an image is among them and as one text      *)
(* otherwise; a message without parts gives its content, behind its        *)
(* reasoning when it has one.                                              *)
(***************************************************************************)
MaxFormatParts == 2

OpenMarker == "<thinking>"

CloseMarker == "</thinking>"

textBlock(text) == [type |-> "text", text |-> text, url |-> Null]

imageBlock(url) == [type |-> "image_url", text |-> <<>>, url |-> url]

thinking_NoClose(text) == <<OpenMarker, "\n">> \o text

\* `<thinking>\n${content}\n</thinking>`
thinking(text) == <<OpenMarker, "\n">> \o text \o <<"\n", CloseMarker>>

RECURSIVE joinTexts(_, _)
\* texts.join(separator)
joinTexts(texts, separator) ==
  IF texts = <<>> THEN <<>>
  ELSE IF Len(texts) = 1 THEN texts[1]
  ELSE texts[1] \o separator \o joinTexts(Tail(texts), separator)

\* `[Tool: ${name}${hasResult ? " (completed)" : ""}]`
toolSummaryLine(t) ==
  <<"[Tool: ">>
  \o (IF t.function.name # <<>> THEN t.function.name ELSE <<"unknown">>)
  \o (IF t.result # Undefined THEN <<" (completed)">> ELSE <<>>)
  \o <<"]">>

toolSummary(tools) ==
  joinTexts([i \in 1..Len(tools) |-> toolSummaryLine(tools[i])], <<"\n">>)

\* the blocks the switch pushes for one part
partBlocks(part) ==
  CASE part.type = "reasoning" ->
         IF trim(part.content) # <<>>
         THEN <<textBlock(thinking(part.content))>> ELSE <<>>
    [] part.type = "content" ->
         IF trim(part.content) # <<>>
         THEN <<textBlock(part.content)>> ELSE <<>>
    [] part.type = "image" ->
         [i \in 1..Len(part.images) |-> imageBlock(part.images[i].url)]
    [] part.type = "tool_group" ->
         IF part.tools # <<>>
         THEN <<textBlock(toolSummary(part.tools))>> ELSE <<>>
    [] OTHER -> <<>>

RECURSIVE blocksOf(_)
blocksOf(ps) ==
  IF ps = <<>> THEN <<>> ELSE partBlocks(Head(ps)) \o blocksOf(Tail(ps))

\* the content of the API message: a text, or an array of blocks
textContent(text) == [text |-> text, blocks |-> <<>>]

arrayContent(blocks) == [text |-> <<>>, blocks |-> blocks]

formatMessageForAPI(msg) ==
  IF msg.parts # <<>>
  THEN LET textAndImageParts == blocksOf(msg.parts)
           hasNonText == \E i \in 1..Len(textAndImageParts) :
                           textAndImageParts[i].type # "text"
       IN  [role |-> msg.role,
            content |->
              IF textAndImageParts = <<>> THEN textContent(msg.content)
              ELSE IF hasNonText THEN arrayContent(textAndImageParts)
              ELSE textContent(
                     joinTexts([i \in 1..Len(textAndImageParts) |->
                                  textAndImageParts[i].text], <<"\n", "\n">>))]
  ELSE [role |-> msg.role,
        content |->
          textContent(IF trim(msg.reasoning) # <<>>
                      THEN thinking(msg.reasoning) \o <<"\n", "\n">>
                           \o msg.content
                      ELSE msg.content)]

FormatTexts ==
  {<<>>, <<" ">>, <<"a">>, <<"b">>, <<"a", CloseMarker, "b">>,
   <<OpenMarker, "a">>}

FormatParts ==
  {[newPart(type, Null) EXCEPT !.content = text] :
     type \in {"reasoning", "content"}, text \in FormatTexts}
  \cup {addImage(<<>>, "u1", Null)[1],
        addOrUpdateTool(<<>>, "function",
                        toolDelta(0, "id1", "function", <<"s">>, <<"x">>))[1]}

FormatMessages ==
  {[role |-> "assistant", content |-> flattened(ps), reasoning |-> <<>>,
    parts |-> ps] :
     ps \in UNION {[1..k -> FormatParts] : k \in 1..MaxFormatParts}}
  \cup {[role |-> "assistant", content |-> c, reasoning |-> r,
         parts |-> <<>>] : c \in {<<>>, <<"a">>}, r \in {<<>>, <<"b">>}}

FormatInit ==
  /\ parts = <<>>
  /\ nOps = 0
  /\ last = noOp
  /\ frags = <<>>
  /\ seen = noneSeen
  /\ NoManager
  /\ NoReader
  /\ NoOther
  /\ exec = idleExec
  /\ \E msg \in FormatMessages : formatted = [msg |-> <<msg>>, api |-> <<>>]

Format ==
  /\ formatted.msg # <<>>
  /\ formatted.api = <<>>
  /\ formatted' = [formatted EXCEPT
                     !.api = <<formatMessageForAPI(formatted.msg[1])>>]
  /\ UNCHANGED <<bvars, tvars, rvars, svars, exec, xvars>>

SpecFormat == FormatInit /\ [][Format]_vars

(***************************************************************************)
(* The text of an API message split at the markers: the reasoning is what  *)
(* stands between the line of the first open marker and the line of the    *)
(* first close marker after it, the content what follows the blank line    *)
(* after that close marker.                                                *)
(***************************************************************************)
firstIndex(text, token, from) ==
  LET at == {i \in from..Len(text) : text[i] = token}
  IN  IF at = {} THEN 0 ELSE Min(at)

openAt(text) == firstIndex(text, OpenMarker, 1)

closeAt(text) == firstIndex(text, CloseMarker, openAt(text) + 1)

hasMarkers(text) == openAt(text) # 0 /\ closeAt(text) # 0

splitAtMarkers(text) ==
  [reasoning |-> SubSeq(text, openAt(text) + 2, closeAt(text) - 2),
   content |-> SubSeq(text, closeAt(text) + 3, Len(text))]

\* formatMessageForAPI was applied to a message of two parts, a reasoning
\* part and then a content part, neither blank
reasoningThenContentFormatted ==
  /\ formatted.api # <<>>
  /\ Len(formatted.msg[1].parts) = 2
  /\ formatted.msg[1].parts[1].type = "reasoning"
  /\ formatted.msg[1].parts[2].type = "content"
  /\ trim(formatted.msg[1].parts[1].content) # <<>>
  /\ trim(formatted.msg[1].parts[2].content) # <<>>

roundTrips ==
  LET text == formatted.api[1].content.text
  IN  /\ formatted.api[1].content.blocks = <<>>
      /\ hasMarkers(text)
      /\ splitAtMarkers(text)
           = [reasoning |-> formatted.msg[1].parts[1].content,
              content |-> formatted.msg[1].parts[2].content]

(***************************************************************************)
(* C20.  Under SpecFormat: the text formatMessageForAPI gives for a        *)
(* non-blank reasoning part followed by a non-blank content part, split at *)
(* the markers, gives back the reasoning text and the content text.        *)
(***************************************************************************)
C20_MarkersRoundTrip == reasoningThenContentFormatted => roundTrips

(***************************************************************************)
(* C20 as it holds: the same, for a reasoning text that does not itself    *)
(* contain the close marker.                                               *)
(***************************************************************************)
C20_MarkersRoundTripNoCloseInReasoning ==
  (/\ reasoningThenContentFormatted
   /\ firstIndex(formatted.msg[1].parts[1].content, CloseMarker, 1) = 0)
  => roundTrips

\* the content text may hold the close marker
C20_Witness ==
  /\ reasoningThenContentFormatted
  /\ formatted.msg[1].parts[1].content = <<"a">>
  /\ formatted.msg[1].parts[2].content = <<"a", CloseMarker, "b">>
  /\ formatted.api[1].content.text
       = <<OpenMarker, "\n", "a", "\n", CloseMarker, "\n", "\n",
           "a", CloseMarker, "b">>

(***************************************************************************)
(* SpecSnapshot: the operations of one PartsBuilder with one call of       *)
(* toReactiveArray among them.  The array returned holds a new object for  *)
(* each part and a new tools array for each tool group, but the elements   *)
(* of that array are the builder's own tool objects: the tool at place t   *)
(* of part p of the copy is the object at parts[p].tools[t] of the         *)
(* builder, written <<p, t>> (a part keeps its place and a tool its place  *)
(* in the part under the operations of this specification).  Texts are     *)
(* values, and no operation changes an image once pushed.                  *)
(***************************************************************************)
toReactiveArrayObjects(ps) ==
  [p \in 1..Len(ps) |->
     [ps[p] EXCEPT !.tools = [t \in 1..Len(ps[p].tools) |-> <<p, t>>]]]

\* what a reader of the returned array finds in it, the builder being at ps
reachableFrom(snap, ps) ==
  [p \in 1..Len(snap.parts) |->
     [snap.parts[p] EXCEPT
        !.tools = [t \in 1..Len(snap.parts[p].tools) |->
                     ps[snap.parts[p].tools[t][1]]
                       .tools[snap.parts[p].tools[t][2]]]]]

ToReactiveArray ==
  /\ ~snapshot.taken
  /\ snapshot' = [taken |-> TRUE, parts |-> toReactiveArrayObjects(parts)]
  /\ UNCHANGED <<bvars, tvars, rvars, svars, exec, formatted, currConvo, storage,
                 generated, request, page>>

SnapshotNext ==
  \/ AppendContent
  \/ AppendReasoning
  \/ AddOrUpdateTool
  \/ SetToolResult
  \/ ProcessImage
  \/ ToReactiveArray

SpecSnapshot == BuilderInit /\ [][SnapshotNext]_vars

(***************************************************************************)
(* C21.  Under SpecSnapshot: toReactiveArray leaves the parts of the       *)
(* builder as they are and returns them as they are, and no later          *)
(* operation of the builder changes what is reachable from the array       *)
(* returned.                                                               *)
(***************************************************************************)
C21_SnapshotIsolated ==
  [][/\ (~snapshot.taken /\ snapshot'.taken)
        => /\ parts' = parts
           /\ reachableFrom(snapshot', parts') = toReactiveArray(parts)
     /\ snapshot.taken
        => reachableFrom(snapshot', parts') = reachableFrom(snapshot, parts)
    ]_vars

(***************************************************************************)
(* C22.  Under SpecBuilder: getAllTools gives the tools of the tool_group  *)
(* parts in the order of the parts and, within a part, by ascending tool   *)
(* index.                                                                  *)
(***************************************************************************)
byAscendingIndex(tools) ==
  [k \in 1..Len(tools) |->
     tools[CHOOSE i \in 1..Len(tools) :
             Cardinality({j \in 1..Len(tools) :
                            tools[j].index < tools[i].index}) = k - 1]]

RECURSIVE toolsInPartThenIndexOrder(_)
toolsInPartThenIndexOrder(ps) ==
  IF ps = <<>> THEN <<>>
  ELSE (IF Head(ps).type = "tool_group"
        THEN byAscendingIndex(Head(ps).tools) ELSE <<>>)
       \o toolsInPartThenIndexOrder(Tail(ps))

C22_ToolsInPartThenIndexOrder ==
  getAllTools(parts) = toolsInPartThenIndexOrder(parts)

(***************************************************************************)
(* C23.  Under Spec: firstTokenTime, reasoningStartTime and                *)
(* reasoningEndTime of the assistant message of the turn, once written,    *)
(* stay as they are; reasoningEndTime is written only with                 *)
(* reasoningStartTime set, by a chunk that carries content, and the first  *)
(* such chunk after reasoning began writes it; and the times that are set  *)
(* satisfy apiCallTime <= firstTokenTime <= reasoningStartTime <=          *)
(* reasoningEndTime.                                                       *)
(***************************************************************************)
timesInOrder(m) ==
  /\ m.firstTokenTime # NullTime => m.apiCallTime <= m.firstTokenTime
  /\ m.reasoningStartTime # NullTime
     => /\ m.firstTokenTime # NullTime
        /\ m.firstTokenTime <= m.reasoningStartTime
  /\ m.reasoningEndTime # NullTime
     => /\ m.reasoningStartTime # NullTime
        /\ m.reasoningStartTime <= m.reasoningEndTime

C23_TimingWrittenOnceInOrder ==
  /\ [](timesInOrder(assistantMsg) /\ (listed => timesInOrder(listedMsg)))
  /\ [][/\ \A f \in {"firstTokenTime", "reasoningStartTime",
                     "reasoningEndTime"} :
             assistantMsg[f] # NullTime => assistantMsg'[f] = assistantMsg[f]
        /\ (assistantMsg.reasoningEndTime = NullTime
            /\ assistantMsg'.reasoningEndTime # NullTime)
           => /\ assistantMsg.reasoningStartTime # NullTime
              /\ assistantMsg'.content # assistantMsg.content
              /\ assistantMsg'.reasoningEndTime = now
        /\ (assistantMsg.reasoningStartTime # NullTime
            /\ assistantMsg'.content # assistantMsg.content)
           => assistantMsg'.reasoningEndTime # NullTime]_vars

\* content, then reasoning, then content again
C23_Witness ==
  /\ sm = "done"
  /\ listed
  /\ listedMsg.apiCallTime < listedMsg.firstTokenTime
  /\ listedMsg.firstTokenTime < listedMsg.reasoningStartTime
  /\ listedMsg.reasoningStartTime < listedMsg.reasoningEndTime

(***************************************************************************)
(* SpecManager: one messages manager under the operations its page and     *)
(* the layout call on it: sendMessage, toggleIncognito, newConversation,   *)
(* changeConversation and deleteConversation, the last three also while a  *)
(* turn is streaming.  A turn is followed from the call to the start of    *)
(* the stream, chunk by chunk, and through its finally block; each chunk   *)
(* carries one token of content.  storage[c] is the messages array of the  *)
(* record conversation_c; ids are given out in order.  A message carries   *)
(* in `incognito` whether incognito mode was on when it was added.         *)
(***************************************************************************)
MaxIds == 6

MaxChunks == 2

MaxSendCalls == 3

UserTexts == {<<"q">>, <<"p">>}

\* what sendMessage may be called with: a text, or blanks only
SendTexts == UserTexts \cup {<<" ">>}

generateId(n) == <<"id", n + 1>>

managerMessage(id, role, content, complete, incognito) ==
  [id |-> id, role |-> role, content |-> content, reasoning |-> <<>>,
   parts |-> <<>>, tool_calls |-> <<>>, complete |-> complete,
   incognito |-> incognito]

hasRecord(store, id) == \E i \in 1..Len(store) : store[i].id = id

recordOf(store, id) ==
  store[CHOOSE i \in 1..Len(store) : store[i].id = id]

\* createConversation: a new record under a new id
createConversation(store, id, msgs) ==
  Append(store, [id |-> id, messages |-> msgs])

\* storeMessages: nothing without a record of that id
storeMessages(store, id, msgs) ==
  [i \in 1..Len(store) |->
     IF store[i].id = id THEN [store[i] EXCEPT !.messages = msgs]
     ELSE store[i]]

\* deleteConversation of storeConversations
deleteConv(store, id) ==
  LET keep == {i \in 1..Len(store) : store[i].id # id}
      RECURSIVE kept(_)
      kept(n) == IF n = 0 THEN <<>>
                 ELSE IF n \in keep THEN Append(kept(n - 1), store[n])
                 ELSE kept(n - 1)
  IN  kept(Len(store))

\* the role and content formatMessageForAPI gives for a message of the list
formatForAPI(msg) ==
  IF msg.role = "assistant"
  THEN formatMessageForAPI(msg)
  ELSE [role |-> msg.role, content |-> textContent(msg.content)]

\* messages.value.filter(msg => msg.complete && msg.content !== messageToStore)
plainMessages(msgs, messageToStore) ==
  SelectSeq(msgs, LAMBDA msg : msg.complete /\ msg.content # messageToStore)

\* the query after the context block with the current date
queryWithDateTime(query) == <<"<context>">> \o query

\* [...plainMessages.map(formatMessageForAPI), {role: "user", content}]
requestBaseMessages(history, query) ==
  [i \in 1..Len(history) |-> formatForAPI(history[i])]
  \o <<[role |-> "user", content |-> textContent(queryWithDateTime(query))]>>

\* what the caller passes as toolNames
ToolNameLists == {<<>>, <<"tool">>}

\* const enabledToolNames = []: the toolNames passed in are not looked at
enabledToolNamesOf(toolNames) == <<>>

\* toolManager.getSchemasByNames: the schemas of the names registered
getSchemasByNames(names) ==
  SelectSeq(names, LAMBDA name : name \in registeredTools)

\* the request body of the first call of the turn
requestBody(messagesForCall, tool_use, toolNames) ==
  LET enabledToolSchemas == getSchemasByNames(enabledToolNamesOf(toolNames))
      supportsTools == tool_use /\ Len(enabledToolSchemas) > 0
  IN  [messages |-> messagesForCall,
       hasTools |-> supportsTools,
       tools |-> IF supportsTools THEN enabledToolSchemas ELSE <<>>,
       tool_choice |-> IF supportsTools THEN "auto" ELSE Undefined]

ManagerInit ==
  /\ parts = <<>>
  /\ nOps = 0
  /\ last = noOp
  /\ frags = <<>>
  /\ seen = noneSeen
  /\ NoManager
  /\ NoReader
  /\ exec = idleExec
  /\ formatted = notFormatted
  /\ NoOther

\* sendMessage up to the start of the stream
sendMessageStart(message, skipUserMessage, toolNames, tool_use) ==
  LET added == IF skipUserMessage THEN 0 ELSE 1
      userMsg == managerMessage(generateId(generated), "user", message,
                                TRUE, isIncognito)
      msg == managerMessage(generateId(generated + added), "assistant",
                            <<>>, FALSE, isIncognito)
      pushed == messages
                \o (IF skipUserMessage THEN <<>> ELSE <<userMsg>>)
                \o <<msg>>
      create == currConvo = noConvo /\ ~isIncognito
      id == generateId(generated + added + 1)
  IN  /\ messages' = pushed
      /\ assistantMsg' = msg
      /\ currConvo' = IF create THEN id ELSE currConvo
      /\ storage' = IF create
                    THEN createConversation(storage, id, pushed)
                    ELSE IF ~isIncognito
                    THEN storeMessages(storage, currConvo, pushed)
                    ELSE storage
      /\ generated' = generated + added + 1 + (IF create THEN 1 ELSE 0)
      /\ request' =
           [sent |-> TRUE, calls |-> request.calls + 1,
            controller |-> request.controller + 1,
            toolNames |-> toolNames, tool_use |-> tool_use,
            query |-> message,
            body |-> requestBody(
                       requestBaseMessages(plainMessages(pushed, message),
                                           message),
                       tool_use, toolNames)]
      /\ isLoading' = TRUE
      /\ sm' = "streaming"
      /\ UNCHANGED <<bvars, rvars, svars, exec, formatted, snapshot, config,
                     isIncognito, aborted, firstTokenReceived, now, gen, hist>>

\* if ((!message.trim() && attachments.length === 0) || isLoading.value)
\* return; no attachments here
sendMessageReturns_WhenEmpty(message, loading) == trim(message) = <<>>

sendMessageReturns(message, loading) == trim(message) = <<>> \/ loading

\* sendMessage, called at any time with any text
ManagerSendMessage ==
  /\ request.calls < MaxSendCalls
  /\ \E message \in SendTexts, toolNames \in ToolNameLists,
        tool_use \in BOOLEAN :
       IF sendMessageReturns(message, isLoading)
       THEN /\ request' = [request EXCEPT !.calls = @ + 1]
            /\ UNCHANGED <<bvars, tvars, rvars, svars, exec, formatted, snapshot,
                           currConvo, storage, generated>>
       ELSE /\ generated + 3 <= MaxIds
            /\ sendMessageStart(message, FALSE, toolNames, tool_use)
  /\ UNCHANGED page

\* one chunk of the for await loop
ManagerChunk ==
  /\ sm = "streaming"
  /\ Len(assistantMsg.content) < MaxChunks
  /\ assistantMsg' = [assistantMsg EXCEPT !.content = @ \o <<"a">>]
  /\ messages' = updateMessageReactivity(messages, assistantMsg', parts)
  /\ UNCHANGED <<bvars, rvars, hvars, config, isLoading, isIncognito, aborted,
                 firstTokenReceived, now, sm, gen, hist>>

\* the finally block
ManagerFinally ==
  /\ sm = "streaming"
  /\ messages' = updateAssistantMessage(messages, assistantMsg,
                                        [complete |-> TRUE])
  /\ isLoading' = FALSE
  /\ storage' = IF ~isIncognito
                THEN storeMessages(storage, currConvo, messages')
                ELSE storage
  /\ sm' = "idle"
  /\ UNCHANGED <<bvars, rvars, svars, exec, formatted, snapshot, request, page,
                 currConvo, generated, config, assistantMsg, isIncognito, aborted,
                 firstTokenReceived, now, gen, hist>>

ToggleIncognito ==
  /\ isIncognito' = ~isIncognito
  /\ UNCHANGED <<bvars, rvars, hvars, config, messages, assistantMsg,
                 isLoading, aborted, firstTokenReceived, now, sm, gen, hist>>

NewConversation ==
  /\ currConvo' = noConvo
  /\ messages' = <<>>
  /\ isIncognito' = FALSE
  /\ UNCHANGED <<bvars, rvars, svars, exec, formatted, snapshot, request, page,
                 storage, generated,
                 config, assistantMsg, isLoading, aborted, firstTokenReceived,
                 now, sm, gen, hist>>

ChangeConversation ==
  /\ ~isIncognito
  /\ \E i \in 1..Len(storage) :
       /\ currConvo' = storage[i].id
       /\ messages' = storage[i].messages
  /\ UNCHANGED <<bvars, rvars, svars, exec, formatted, snapshot, request, page,
                 storage, generated,
                 config, assistantMsg, isLoading, isIncognito, aborted,
                 firstTokenReceived, now, sm, gen, hist>>

DeleteConversation ==
  /\ ~isIncognito
  /\ \E i \in 1..Len(storage) :
       /\ storage' = deleteConv(storage, storage[i].id)
       /\ currConvo' = IF currConvo = storage[i].id THEN noConvo ELSE currConvo
       /\ messages' = IF currConvo = storage[i].id THEN <<>> ELSE messages
  /\ UNCHANGED <<bvars, rvars, svars, exec, formatted, snapshot, request, page,
                 generated, config,
                 assistantMsg, isLoading, isIncognito, aborted,
                 firstTokenReceived, now, sm, gen, hist>>

ManagerNext ==
  \/ ManagerSendMessage
  \/ ManagerChunk
  \/ ManagerFinally
  \/ ToggleIncognito
  \/ NewConversation
  \/ ChangeConversation
  \/ DeleteConversation

SpecManager == ManagerInit /\ [][ManagerNext]_vars

(***************************************************************************)
(* C24.  Under SpecManager: no record of the storage holds a message that  *)
(* was added to the message list while incognito mode was on.              *)
(***************************************************************************)
C24_IncognitoNeverStored ==
  \A c \in 1..Len(storage) :
    \A i \in 1..Len(storage[c].messages) : ~storage[c].messages[i].incognito

(***************************************************************************)
(* C25.  Under SpecManager: a streaming update of a turn changes only the  *)
(* element of the message list that has the id of the turn's assistant     *)
(* message, and neither adds nor removes an element; and no message is     *)
(* stored in the records of two conversations, so the messages of a turn   *)
(* are written to the record of the turn's own conversation only.          *)
(***************************************************************************)
C25_TurnOwnsItsMessage ==
  /\ [][(sm = "streaming" /\ assistantMsg' # assistantMsg) =>
          /\ Len(messages') = Len(messages)
          /\ \A i \in 1..Len(messages) :
               messages'[i] # messages[i] => messages[i].id = assistantMsg.id
       ]_vars
  /\ [](\A c, d \in 1..Len(storage) :
          \A i \in 1..Len(storage[c].messages) :
            \A j \in 1..Len(storage[d].messages) :
              storage[c].messages[i].id = storage[d].messages[j].id => c = d)

(***************************************************************************)
(* C26.  Under Spec: when a response that requested tools has ended and    *)
(* the generator turns to executing them, every call the accumulator of    *)
(* the response holds is a tool call of the builder, and of one only, with *)
(* the same index, id, name and arguments.                                 *)
(***************************************************************************)
builderToolsLike(i, call) ==
  {k \in 1..Len(getAllTools(parts)) :
     LET t == getAllTools(parts)[k]
     IN  /\ t.index = i
         /\ t.id = call.id
         /\ t.function.name = call.function.name
         /\ t.function.arguments = call.function.arguments}

FrameContents == {<<>>, <<"a">>, <<"b">>}

FrameInputs ==
  {[frame(c, r, t, Null) EXCEPT !.images = i] :
     c \in FrameContents, r \in {<<>>, <<"r">>},
     t \in {<<>>, <<toolDelta(0, "id1", "function", <<"s">>, <<"x">>)>>},
     i \in {<<>>, <<StreamImage>>}}
  \ {frame(<<>>, <<>>, <<>>, Null)}

RECURSIVE processChunks(_, _, _)
processChunks(s, cs, t) ==
  IF cs = <<>> THEN s
  ELSE processChunks(processChunk(s, Head(cs), t), Tail(cs), t)

FrameInit == ManagerInit

ApplyFrame ==
  /\ nOps < MaxFrames
  /\ \E f \in FrameInputs :
       LET s == processChunks([msg |-> assistantMsg, parts |-> parts,
                               received |-> firstTokenReceived],
                              frameChunks(f), now)
       IN  /\ assistantMsg' = s.msg
           /\ parts' = s.parts
           /\ firstTokenReceived' = s.received
           /\ frags' = IF f.content # <<>> THEN Append(frags, f.content)
                       ELSE frags
           /\ seen' = [seen EXCEPT
                         !.arguments =
                            @ \o concat([k \in 1..Len(f.tool_calls) |->
                                           f.tool_calls[k].function.arguments])]
  /\ nOps' = nOps + 1
  /\ UNCHANGED <<last, rvars, hvars, config, messages, isLoading, isIncognito,
                 aborted, now, sm, gen, hist>>

SpecFrame == FrameInit /\ [][ApplyFrame]_vars

(***************************************************************************)
(* C27.  Under SpecFrame: the content of the assistant message is the      *)
(* content deltas of the frames concatenated in order, and the arguments   *)
(* of the builder's tool calls, taken together, are the argument deltas of *)
(* the frames concatenated in order: each delta was applied once.          *)
(***************************************************************************)
C27_EachDeltaAppliedOnce ==
  /\ assistantMsg.content = concat(frags)
  /\ concat([k \in 1..Len(getAllTools(parts)) |->
               getAllTools(parts)[k].function.arguments]) = seen.arguments

(***************************************************************************)
(* C28.  Under SpecManager: a request built for a model whose tool_use is  *)
(* not false, by a call that was given the names of registered tools,      *)
(* carries the schemas of those tools in `tools` with tool_choice "auto".  *)
(***************************************************************************)
C28_RequestCarriesTools ==
  (/\ request.sent
   /\ request.tool_use
   /\ request.toolNames # <<>>
   /\ \A k \in 1..Len(request.toolNames) :
        request.toolNames[k] \in registeredTools)
  => /\ request.body.hasTools
     /\ request.body.tools = getSchemasByNames(request.toolNames)
     /\ request.body.tool_choice = "auto"

(***************************************************************************)
(* C29.  Under SpecManager: the messages of the first request of a turn    *)
(* are the completed messages that were in the list before the turn's user *)
(* message, each once and in the order of the list, followed by the        *)
(* current user message.                                                   *)
(***************************************************************************)
C29_HistoryIsCompletedPredecessors ==
  [][generated' # generated =>
       request'.body.messages =
         requestBaseMessages(SelectSeq(messages, LAMBDA m : m.complete),
                             request'.query)]_vars

(***************************************************************************)
(* SpecPage: the first message of a conversation.  The index page creates  *)
(* the conversation with the user message and navigates; the conversation  *)
(* page is set up with a messages manager of its own and its two mounted   *)
(* hooks run, each up to its first await: the hook of useConversation      *)
(* (changeConversation, awaiting the record) and the hook of the page      *)
(* (awaiting loadSettings, then nextTick, then the check of the list).     *)
(* The two awaits end in either order.  The turn the check starts is       *)
(* followed as in SpecManager.  page.load and page.mount say how far the   *)
(* two hooks have come, page.called whether sendMessage was called.        *)
(***************************************************************************)
PriorStorages ==
  {<<>>,
   <<[id |-> <<"id", -1>>,
      messages |-> <<managerMessage(<<"id", -3>>, "user", <<"q">>, TRUE,
                                    FALSE),
                     managerMessage(<<"id", -2>>, "assistant", <<"a">>,
                                    TRUE, FALSE)>>]>>,
   <<[id |-> <<"id", -1>>,
      messages |-> <<managerMessage(<<"id", -3>>, "user", <<"p">>, TRUE,
                                    FALSE)>>]>>}

PageInit ==
  /\ parts = <<>>
  /\ nOps = 0
  /\ last = noOp
  /\ frags = <<>>
  /\ seen = noneSeen
  /\ NoManager
  /\ NoReader
  /\ exec = idleExec
  /\ formatted = notFormatted
  /\ snapshot = noSnapshot
  /\ currConvo = noConvo
  /\ storage \in PriorStorages
  /\ generated = 0
  /\ request = noRequest
  /\ metadata = <<>>
  /\ jobs = noJobs
  /\ page = [noPage EXCEPT !.at = "index"]

\* sendMessage of the index page: createNewConversationWithMessage, then
\* router.push
IndexSendMessage ==
  /\ page.at = "index"
  /\ ~isLoading /\ ~isIncognito
  /\ \E message \in UserTexts :
       LET initialUserMessage ==
             managerMessage(generateId(generated), "user", message, TRUE,
                            isIncognito)
           conversationId == generateId(generated + 1)
       IN  /\ messages' = Append(messages, initialUserMessage)
           /\ storage' = createConversation(storage, conversationId,
                                            messages')
           /\ currConvo' = conversationId
           /\ page' = [page EXCEPT !.at = "navigating",
                                   !.route = conversationId]
  /\ generated' = generated + 2
  /\ UNCHANGED <<bvars, rvars, svars, exec, formatted, snapshot, request, config,
                 assistantMsg, isLoading, isIncognito, aborted,
                 firstTokenReceived, now, sm, gen, hist>>

\* the conversation page set up and mounted: a messages manager of its own,
\* changeConversation up to its await, the page's hook up to its await
PageMounted ==
  /\ page.at = "navigating"
  /\ ~isIncognito
  /\ messages' = <<>>
  /\ currConvo' = page.route
  /\ page' = [page EXCEPT !.at = "conversation", !.load = "awaiting",
                          !.mount = "settings"]
  /\ UNCHANGED <<bvars, rvars, svars, exec, formatted, snapshot, request, storage,
                 generated, config, assistantMsg, isLoading, isIncognito,
                 aborted, firstTokenReceived, now, sm, gen, hist>>

\* changeConversation after localforage.getItem
PageConversationLoaded ==
  /\ page.load = "awaiting"
  /\ messages' = IF hasRecord(storage, currConvo)
                 THEN recordOf(storage, currConvo).messages
                 ELSE <<>>
  /\ page' = [page EXCEPT !.load = "done"]
  /\ UNCHANGED <<bvars, rvars, svars, exec, formatted, snapshot, request, storage,
                 generated, currConvo, config, assistantMsg, isLoading,
                 isIncognito, aborted, firstTokenReceived, now, sm, gen,
                 hist>>

\* the page's hook after loadSettings: setChatPanel, await nextTick
PageSettingsLoaded ==
  /\ page.mount = "settings"
  /\ page' = [page EXCEPT !.mount = "tick"]
  /\ UNCHANGED <<bvars, tvars, rvars, svars, exec, formatted, snapshot, request,
                 storage, generated, currConvo>>

\* the page's hook after nextTick: the check, and sendMessage when it passes
PageCheck ==
  /\ page.mount = "tick"
  /\ IF Len(messages) = 1 /\ messages[1].role = "user" /\ ~isLoading
     THEN /\ \E toolNames \in ToolNameLists, tool_use \in BOOLEAN :
               sendMessageStart(messages[1].content, TRUE, toolNames,
                                tool_use)
          /\ page' = [page EXCEPT !.mount = "done", !.called = TRUE]
     ELSE /\ page' = [page EXCEPT !.mount = "done"]
          /\ UNCHANGED <<bvars, tvars, rvars, svars, exec, formatted, snapshot,
                         request, storage, generated, currConvo>>

PageNext ==
  \/ IndexSendMessage
  \/ PageMounted
  \/ PageConversationLoaded
  \/ PageSettingsLoaded
  \/ PageCheck
  \/ ManagerChunk
  \/ ManagerFinally

SpecPage == PageInit /\ [][PageNext]_vars

\* every await ends and every step that can be taken is taken
SpecPageFair == SpecPage /\ WF_vars(PageNext)

(***************************************************************************)
(* C30.  Under SpecPageFair: once the conversation page of a conversation  *)
(* created with one user message is mounted, sendMessage is eventually     *)
(* called for that message, whichever of the two awaits ends first; and    *)
(* the call is made only after the load has filled the message list.       *)
(***************************************************************************)
C30_NewConversationGetsItsAnswer ==
  /\ (page.at = "conversation") ~> page.called
  /\ [](page.called => page.load = "done")

(***************************************************************************)
(* C31.  Under SpecManager: while isLoading is true, no step adds a        *)
(* message to the list, replaces the abort controller or issues a request; *)
(* in particular a call of sendMessage made then changes nothing but the   *)
(* count of calls, so the turn in flight stays the only one.               *)
(***************************************************************************)
C31_OneTurnInFlight ==
  [][isLoading =>
       /\ request'.controller = request.controller
       /\ request'.body = request.body
       /\ request'.sent = request.sent
       /\ assistantMsg'.id = assistantMsg.id
       /\ generated' = generated
       /\ (request'.calls # request.calls =>
             /\ messages' = messages
             /\ storage' = storage
             /\ isLoading')]_vars

\* a call of sendMessage was made while a turn was streaming, and returned
C31_Witness ==
  /\ isLoading
  /\ sm = "streaming"
  /\ request.controller = 1
  /\ request.calls = 2
  /\ Len(messages) = 2

(***************************************************************************)
(* storeConversations: the writers of one conversation.                    *)
(*                                                                         *)
(* localforage holds conversation_<id> records, here storage with a title  *)
(* next to the messages, and the list conversations_metadata.  Each        *)
(* getItem and setItem is awaited, so each is a step of its own and the    *)
(* steps of generateTitleInBackground, which createConversation starts     *)
(* without awaiting it, interleave with those of storeMessages.  The       *)
(* lastUpdated stamps are left out.  One call of storeMessages is in       *)
(* flight at a time.                                                       *)
(***************************************************************************)
\* calls of storeMessages in SpecStore
MaxStores == 3

\* title.length > 40
TitleLength == 40

NewChat == <<"N", "e", "w", " ", "C", "h", "a", "t">>

Untitled == <<"U", "n", "t", "i", "t", "l", "e", "d">>

\* the first user messages of SpecStore
StoreTexts == {<<"q">>, <<"p", "\n", "r">>}

\* the part of a text before its first line break
firstLine(s) ==
  IF \E i \in 1..Len(s) : s[i] = "\n"
  THEN SubSeq(s, 1, Min({i \in 1..Len(s) : s[i] = "\n"}) - 1)
  ELSE s

substring(s, n) == IF Len(s) > n THEN SubSeq(s, 1, n) ELSE s

deriveTitleFromMessages(msgs) ==
  LET users == SelectSeq(msgs, LAMBDA msg : /\ msg.role = "user"
                                            /\ trim(msg.content) # <<>>)
      title == substring(firstLine(trim(users[1].content)), TitleLength)
  IN  IF users = <<>> THEN NewChat
      ELSE IF title = <<>> THEN NewChat ELSE title

\* localforage.setItem of a conversation record
setItem(store, rec) ==
  IF hasRecord(store, rec.id)
  THEN [i \in 1..Len(store) |->
          IF store[i].id = rec.id THEN rec ELSE store[i]]
  ELSE Append(store, rec)

\* what the title request comes back with: ok, choices, the content
TitleResponses ==
  {[ok |-> TRUE, choices |-> TRUE, content |-> <<"t">>],
   [ok |-> TRUE, choices |-> TRUE, content |-> <<>>],
   [ok |-> TRUE, choices |-> FALSE, content |-> <<>>],
   [ok |-> FALSE, choices |-> FALSE, content |-> <<>>]}

\* newTitle of generateTitleInBackground
newTitleOf(response, msgs) ==
  LET fromApi == IF response.ok /\ response.choices
                 THEN substring(IF response.content = <<>> THEN Untitled
                                ELSE response.content, TitleLength)
                 ELSE Untitled
  IN  IF fromApi = <<>> \/ trim(fromApi) = <<>> \/ fromApi = Untitled
      THEN deriveTitleFromMessages(msgs)
      ELSE fromApi

\* the state createConversation leaves: the record and its metadata entry
\* written, generateTitleInBackground called
StoreInit ==
  /\ parts = <<>>
  /\ nOps = 0
  /\ last = noOp
  /\ frags = <<>>
  /\ seen = noneSeen
  /\ NoReader
  /\ exec = idleExec
  /\ formatted = notFormatted
  /\ snapshot = noSnapshot
  /\ request = noRequest
  /\ page = noPage
  /\ config = [tool_max_iterations |-> <<>>, tool_use |-> TRUE,
               enabledToolNames |-> <<>>, modelFound |-> TRUE]
  /\ isIncognito = FALSE
  /\ aborted = FALSE
  /\ firstTokenReceived = FALSE
  /\ now = 0
  /\ gen = idleGen
  /\ hist = noHist
  /\ generated = 3
  /\ currConvo = generateId(2)
  /\ isLoading = TRUE
  /\ sm = "streaming"
  /\ \E text \in StoreTexts :
       LET msg == managerMessage(generateId(1), "assistant", <<>>, FALSE,
                                 FALSE)
           pushed == <<managerMessage(generateId(0), "user", text, TRUE,
                                      FALSE), msg>>
           title == deriveTitleFromMessages(pushed)
       IN  /\ messages = pushed
           /\ assistantMsg = msg
           /\ storage = <<[id |-> currConvo, title |-> title,
                           messages |-> pushed]>>
           /\ metadata = <<[id |-> currConvo, title |-> title]>>
           /\ jobs = [noJobs EXCEPT !.title.pc = "fetch",
                                    !.title.messages = pushed]

\* the parts of the state no step of SpecStore changes
storeUnchanged ==
  UNCHANGED <<bvars, rvars, exec, formatted, snapshot, request, page,
              generated, currConvo, config, isIncognito, aborted,
              firstTokenReceived, now, gen, hist>>

\* await fetch("/api/ai"): the request for a title is answered
TitleFetched ==
  /\ jobs.title.pc = "fetch"
  /\ \E response \in TitleResponses :
       jobs' = [jobs EXCEPT
                  !.title.pc = "read",
                  !.title.title = newTitleOf(response, jobs.title.messages)]
  /\ UNCHANGED <<messages, assistantMsg, isLoading, sm, storage, metadata>>
  /\ storeUnchanged

\* await fetch throws: the catch ends the job
TitleFetchFails ==
  /\ jobs.title.pc = "fetch"
  /\ jobs' = [jobs EXCEPT !.title.pc = "done"]
  /\ UNCHANGED <<messages, assistantMsg, isLoading, sm, storage, metadata>>
  /\ storeUnchanged

\* const conversation = await localforage.getItem(...)
TitleRead ==
  /\ jobs.title.pc = "read"
  /\ jobs' = IF hasRecord(storage, currConvo)
             THEN [jobs EXCEPT !.title.pc = "write",
                               !.title.read = <<recordOf(storage, currConvo)>>]
             ELSE [jobs EXCEPT !.title.pc = "done"]
  /\ UNCHANGED <<messages, assistantMsg, isLoading, sm, storage, metadata>>
  /\ storeUnchanged

\* conversation.title = newTitle; await localforage.setItem(..., conversation)
TitleWrite ==
  /\ jobs.title.pc = "write"
  /\ storage' = setItem(storage, [jobs.title.read[1] EXCEPT
                                    !.title = jobs.title.title])
  /\ jobs' = [jobs EXCEPT !.title.pc = "readMeta"]
  /\ UNCHANGED <<messages, assistantMsg, isLoading, sm, metadata>>
  /\ storeUnchanged

\* const metadata = (await localforage.getItem("conversations_metadata"))
TitleReadMeta ==
  /\ jobs.title.pc = "readMeta"
  /\ jobs' = [jobs EXCEPT !.title.pc = "writeMeta",
                          !.title.metadata = metadata]
  /\ UNCHANGED <<messages, assistantMsg, isLoading, sm, storage, metadata>>
  /\ storeUnchanged

\* await localforage.setItem("conversations_metadata", updatedMetadata)
TitleWriteMeta ==
  /\ jobs.title.pc = "writeMeta"
  /\ metadata' = [i \in 1..Len(jobs.title.metadata) |->
                    IF jobs.title.metadata[i].id = currConvo
                    THEN [jobs.title.metadata[i] EXCEPT
                            !.title = jobs.title.title]
                    ELSE jobs.title.metadata[i]]
  /\ jobs' = [jobs EXCEPT !.title.pc = "done"]
  /\ UNCHANGED <<messages, assistantMsg, isLoading, sm, storage>>
  /\ storeUnchanged

storeIdle == jobs.store.pc \in {"idle", "done"}

\* the finally of sendMessage: the answer is complete, storeMessages is
\* called
StoreAfterTurn ==
  /\ sm = "streaming"
  /\ storeIdle
  /\ jobs.store.calls < MaxStores
  /\ messages' = updateAssistantMessage(
                   messages, assistantMsg,
                   [content |-> <<"a">>, complete |-> TRUE])
  /\ isLoading' = FALSE
  /\ sm' = "idle"
  /\ jobs' = [jobs EXCEPT !.store.pc = "read", !.store.calls = @ + 1]
  /\ UNCHANGED <<assistantMsg, storage, metadata>>
  /\ storeUnchanged

\* sendMessage in the conversation: the two messages are pushed and
\* storeMessages is called so that the user message is persistent
StoreBeforeTurn ==
  /\ sm = "idle"
  /\ storeIdle
  /\ jobs.store.calls < MaxStores
  /\ LET n == Len(messages)
         msg == managerMessage(<<"id", -(n + 1)>>, "assistant", <<>>,
                               FALSE, FALSE)
     IN  /\ messages' = messages
                        \o <<managerMessage(<<"id", -n>>, "user", <<"p">>,
                                            TRUE, FALSE), msg>>
         /\ assistantMsg' = msg
  /\ isLoading' = TRUE
  /\ sm' = "streaming"
  /\ jobs' = [jobs EXCEPT !.store.pc = "read", !.store.calls = @ + 1]
  /\ UNCHANGED <<storage, metadata>>
  /\ storeUnchanged

\* const data = await localforage.getItem(...); the messages handed in are
\* the list as it is when the read returns
StoreRead ==
  /\ jobs.store.pc = "read"
  /\ jobs' = IF hasRecord(storage, currConvo)
             THEN [jobs EXCEPT
                     !.store.pc = "write",
                     !.store.read = <<recordOf(storage, currConvo)>>,
                     !.store.messages = messages,
                     !.store.title =
                        LET title == recordOf(storage, currConvo).title
                        IN  IF title = <<>> \/ title = Untitled
                            THEN deriveTitleFromMessages(messages)
                            ELSE title]
             ELSE [jobs EXCEPT !.store.pc = "done"]
  /\ UNCHANGED <<messages, assistantMsg, isLoading, sm, storage, metadata>>
  /\ storeUnchanged

\* await localforage.setItem(..., {title, lastUpdated, messages})
StoreWrite ==
  /\ jobs.store.pc = "write"
  /\ storage' = setItem(storage, [id |-> currConvo,
                                  title |-> jobs.store.title,
                                  messages |-> jobs.store.messages])
  /\ jobs' = [jobs EXCEPT !.store.pc = "readMeta"]
  /\ UNCHANGED <<messages, assistantMsg, isLoading, sm, metadata>>
  /\ storeUnchanged

StoreReadMeta ==
  /\ jobs.store.pc = "readMeta"
  /\ jobs' = [jobs EXCEPT !.store.pc = "writeMeta",
                          !.store.metadata = metadata]
  /\ UNCHANGED <<messages, assistantMsg, isLoading, sm, storage, metadata>>
  /\ storeUnchanged

\* the entries of other ids, then one entry for this id
StoreWriteMeta ==
  /\ jobs.store.pc = "writeMeta"
  /\ metadata' = Append(SelectSeq(jobs.store.metadata,
                                  LAMBDA m : m.id # currConvo),
                        [id |-> currConvo, title |-> jobs.store.title])
  /\ jobs' = [jobs EXCEPT !.store.pc = "done"]
  /\ UNCHANGED <<messages, assistantMsg, isLoading, sm, storage>>
  /\ storeUnchanged

StoreNext ==
  \/ TitleFetched
  \/ TitleFetchFails
  \/ TitleRead
  \/ TitleWrite
  \/ TitleReadMeta
  \/ TitleWriteMeta
  \/ StoreAfterTurn
  \/ StoreBeforeTurn
  \/ StoreRead
  \/ StoreWrite
  \/ StoreReadMeta
  \/ StoreWriteMeta

SpecStore == StoreInit /\ [][StoreNext]_vars

\* the ids of the completed assistant messages of the stored record
storedAnswers(store, id) ==
  IF hasRecord(store, id)
  THEN {recordOf(store, id).messages[i].id :
          i \in {j \in 1..Len(recordOf(store, id).messages) :
                   /\ recordOf(store, id).messages[j].role = "assistant"
                   /\ recordOf(store, id).messages[j].complete}}
  ELSE {}

(***************************************************************************)
(* C32.  Under SpecStore: a completed assistant message that the stored    *)
(* record of the conversation contains stays in the stored record at       *)
(* every later step, whatever the order of the steps of storeMessages and  *)
(* generateTitleInBackground; and conversations_metadata always has        *)
(* exactly one entry for the conversation.                                 *)
(***************************************************************************)
C32_PersistedTurnIsKept ==
  /\ [][storedAnswers(storage, currConvo)
          \subseteq storedAnswers(storage', currConvo)]_vars
  /\ [](Cardinality({i \in 1..Len(metadata) :
                       metadata[i].id = currConvo}) = 1)

(***************************************************************************)
(* The agent loop and its limit.                                           *)
(*                                                                         *)
(* SpecLoop is the turn of Spec with every setting of tool_max_iterations  *)
(* that decides a case of the test iteration >= maxToolIterations: unset   *)
(* (the default of 4), negative, zero, one, three.  The endpoint answers   *)
(* each request with any number of lines, one per read, each a content     *)
(* frame or a tool_calls frame, and every response ends; requests may      *)
(* also fail and the user may abort.                                       *)
(***************************************************************************)
\* frames of one turn in SpecLoop
MaxLoopFrames == 4

LoopSettings == {<<>>, <<-1>>, <<0>>, <<1>>, <<3>>}

LoopLines ==
  {frame(<<"a">>, <<>>, <<>>, Null),
   frame(<<>>, <<>>, <<toolDelta(0, "id1", "function", <<"s">>, <<"x">>)>>,
         Null)}

LoopInit ==
  /\ parts = <<>>
  /\ nOps = 0
  /\ last = noOp
  /\ frags = <<>>
  /\ seen = noneSeen
  /\ config \in [tool_max_iterations : LoopSettings,
                 tool_use : BOOLEAN,
                 enabledToolNames : {<<>>, <<"tool">>},
                 modelFound : {TRUE}]
  /\ messages = <<>>
  /\ assistantMsg = idleAssistantMsg
  /\ isLoading = FALSE
  /\ isIncognito = FALSE
  /\ aborted = FALSE
  /\ firstTokenReceived = FALSE
  /\ now = 0
  /\ sm = "idle"
  /\ gen = idleGen
  /\ hist = noHist
  /\ NoReader
  /\ NoHelper

\* const { done, value } = await reader.read(): one line arrived
LoopReadLine ==
  /\ sm = "streaming" /\ gen.pc = "read" /\ ~aborted
  /\ hist.frames < MaxLoopFrames
  /\ \E line \in LoopLines :
       Deliver(forLines([gen EXCEPT !.lines = <<line>>],
                        [hist EXCEPT !.frames = @ + 1]))

LoopNext ==
  \/ SendMessage
  \/ Abort
  \/ FetchRejected
  \/ ResponseOk
  \/ ResponseNotOk
  \/ LoopReadLine
  \/ ReadDone
  \/ ReadRejected
  \/ ToolsReturn
  \/ Resume

SpecLoop == LoopInit /\ [][LoopNext]_vars

\* every promise awaited settles and the generator then runs on: steps keep
\* being taken unless the turn is done.  A step of LoopNext is possible in
\* exactly the states with sm # "done", so this is weak fairness of LoopNext
\* stated without ENABLED.
SpecLoopFair ==
  SpecLoop /\ ([]<>(sm = "done") \/ []<><<LoopNext>>_vars)

\* max(1, maxToolIterations)
requestLimit(cfg) ==
  IF maxToolIterations(cfg) > 1 THEN maxToolIterations(cfg) ELSE 1

(***************************************************************************)
(* C33.  Under SpecLoopFair: for every setting of tool_max_iterations the  *)
(* number of completion requests of a turn never exceeds                   *)
(* max(1, maxToolIterations); a turn that started ends; and the step at    *)
(* which the loop stops because the limit is reached returns from the      *)
(* generator without yielding: no chunk is delivered, and the listed       *)
(* message keeps the content it had, with no error recorded.               *)
(***************************************************************************)
C33_LoopStopsAtLimit ==
  /\ [](hist.requests <= requestLimit(config))
  /\ (sm = "streaming") ~> (sm = "done")
  /\ [][(hist'.exit = "maxIterations" /\ hist.exit # "maxIterations") =>
          /\ gen'.pc = "returned"
          /\ hist'.lastChunk = hist.lastChunk
          /\ listedMsg'.content = assistantMsg.content
          /\ listedMsg'.errorDetails = Null
          /\ ~listedMsg'.error]_vars

\* unset limit: the loop stopped at the fourth request, all four responses
\* having asked for tools
C33_Witness ==
  /\ sm = "done"
  /\ hist.exit = "maxIterations"
  /\ config.tool_max_iterations = <<>>
  /\ hist.requests = DefaultMaxToolIterations
  /\ hist.toolRounds = DefaultMaxToolIterations - 1

====
